---------------------------- MODULE Spec2Model ----------------------------
(***************************************************************************)
(* SmartPin TPO multi-agent orchestrator (src/agents/main.py and the       *)
(* agents under src/agents/agents/).  One task is run through the          *)
(* LangGraph workflow built by SmartPinOrchestrator._build_workflow: the   *)
(* supervisor node, the five agent nodes and the error handler node, each  *)
(* followed by its conditional edge.                                       *)
(*                                                                         *)
(* Python values: an Optional is a sequence of length 0 (None) or 1; a     *)
(* str whose characters matter is a sequence of one-character strings; a   *)
(* dict is a function whose DOMAIN is its key set.                         *)
(***************************************************************************)
EXTENDS Naturals, Integers, Sequences, FiniteSets, TLC

VARIABLES
    pc,           \* the node the graph runs next, "END", "returned" or "raised"
    messages,     \* WorkflowState.messages (authors of the entries, in order)
    next_agent,   \* WorkflowState.next_agent
    error_state,  \* WorkflowState.error_state (Optional[str])
    results,      \* WorkflowState.results (dict)
    roof_id,      \* WorkflowState.roof_id (Optional[str])
    current_task, \* WorkflowState.current_task
    project_id,   \* WorkflowState.project_id (Optional[str])
    context,      \* WorkflowState.context (dict)
    steps,        \* nodes executed so far in this run
    calls,        \* Tool Gateway calls made by the last node, in order
    final_state,  \* process_task's final_state: the last node's returned dict
    ret,          \* process_task's return value (Optional)
    \* arguments and return values of the functions that are also run on their
    \* own, outside a workflow run (pc then names the function being called)
    arg_task,             \* _analyze_task(task)
    ret_task_analysis,    \* the dict it returns (Optional)
    arg_criteria_checks,  \* _make_qa_decision(criteria_checks) (Optional)
    ret_decision,         \* the dict it returns (Optional)
    arg_review_results,   \* the single-pin results _review_pins aggregates
    ret_review,           \* the dict it returns (Optional)
    call_args,            \* the arguments of any other function (Optional)
    call_ret,             \* what it returns (Optional)
    \* the MCPClient the orchestrator's agents share, the server processes it
    \* started, and the tasks calling it concurrently
    connected,    \* MCPClient.connected
    process,      \* MCPClient.process (Optional: the number of the process)
    servers,      \* the gateway server processes started, with their pipes
    callers       \* per task: where its call_tool invocation is suspended,
                  \* the calls it began, what they returned

workflow_vars == <<pc, messages, next_agent, error_state, results, roof_id,
                   current_task, project_id, context, steps, calls,
                   final_state, ret>>

function_vars == <<arg_task, ret_task_analysis, arg_criteria_checks,
                   ret_decision, arg_review_results, ret_review,
                   call_args, call_ret>>

client_vars == <<connected, process, servers, callers>>

vars == <<workflow_vars, function_vars, client_vars>>

---------------------------------------------------------------------------
(* Bounds of the model *)

\* nodes executed in one run before the model stops following it
MaxSteps == 6

\* call_tool invocations each concurrent task makes
MaxCalls == 2

---------------------------------------------------------------------------
(* Python values *)

None == <<>>
Some(v) == <<v>>

\* dict update {**d, key: val}
Put(d, key, val) ==
    [k \in (DOMAIN d) \cup {key} |-> IF k = key THEN val ELSE d[k]]

EmptyDict == [k \in {} |-> None]

UpperCase ==
    <<"A","B","C","D","E","F","G","H","I","J","K","L","M","N","O","P","Q","R","S","T","U","V","W","X","Y","Z">>

LowerCase ==
    <<"a","b","c","d","e","f","g","h","i","j","k","l","m","n","o","p","q","r","s","t","u","v","w","x","y","z">>

\* str.lower() on one (ASCII) character
lower_char(c) ==
    IF \E i \in 1..26 : UpperCase[i] = c
    THEN LowerCase[CHOOSE i \in 1..26 : UpperCase[i] = c]
    ELSE c

\* a case-sensitive test: the text is left as it is
lower_unchanged(text) == text

\* str.lower()
lower(text) == [i \in 1..Len(text) |-> lower_char(text[i])]

\* the Python test `needle in text` on strings
contains(needle, text) ==
    \E i \in 0..(Len(text) - Len(needle)) :
        \A j \in 1..Len(needle) : text[i + j] = needle[j]

TIMEOUT_KW == <<"t","i","m","e","o","u","t">>
RECOVERABLE == <<"r","e","c","o","v","e","r","a","b","l","e">>
FATAL == <<"f","a","t","a","l">>
NO_TASK_MESSAGE ==
    <<"N","o"," ","t","a","s","k"," ","m","e","s","s","a","g","e"," ","p","r","o","v","i","d","e","d">>
\* a detail text that speaks of a timeout
NO_PIN_ANALYSIS_timeout ==
    <<"p","i","n"," ","a","n","a","l","y","s","i","s"," ","t","i","m","e","o","u","t">>

NO_PIN_ANALYSIS ==
    <<"C","o","u","l","d"," ","n","o","t"," ","a","n","a","l","y","z","e"," ","p","i","n"," ","o","p","e","r","a","t","i","o","n">>
NO_QA_ANALYSIS ==
    <<"C","o","u","l","d"," ","n","o","t"," ","a","n","a","l","y","z","e"," ","Q","A"," ","t","a","s","k">>

\* Python truthiness of an Optional[str]
truthy(opt) == opt # None /\ opt[1] # <<>>

---------------------------------------------------------------------------
(* The workflow graph *)

Handlers ==
    {"pin_ops", "qa_reviewer", "spatial_analyst", "photo_processor", "reporter"}

\* path map of the supervisor's conditional edges
SupervisorEdges ==
    [pin_ops |-> "pin_ops", qa_reviewer |-> "qa_reviewer",
     spatial_analyst |-> "spatial_analyst",
     photo_processor |-> "photo_processor", reporter |-> "reporter",
     error |-> "error_handler", end |-> "END"]

\* path map of every agent's conditional edges
AgentEdges ==
    [supervisor |-> "supervisor", error |-> "error_handler", end |-> "END"]

\* path map of the error handler's conditional edges
ErrorEdges == [supervisor |-> "supervisor", end |-> "END"]

\* LangGraph's conditional edge: the router's value is looked up in the
\* path map; a value that is not a key raises out of the run
ConditionalEdge(path_map, key) ==
    IF key \in DOMAIN path_map THEN path_map[key] ELSE "raised"

_route_to_agent(na) == na

\* the "end" test reversed
_agent_completion_router_reversed(es, na) ==
    IF truthy(es) THEN "error"
    ELSE IF na # "end" THEN "end"
    ELSE "supervisor"

\* next_agent == "error" routed to the error handler
_agent_completion_router_by_next_agent(es, na) ==
    IF truthy(es) \/ na = "error" THEN "error"
    ELSE IF na = "end" THEN "end"
    ELSE "supervisor"

_agent_completion_router(es, na) ==
    IF truthy(es) THEN "error"
    ELSE IF na = "end" THEN "end"
    ELSE "supervisor"

\* the comparison reversed
_error_recovery_router_reversed(es) ==
    IF es # Some(RECOVERABLE) THEN "supervisor" ELSE "end"

_error_recovery_router(es) ==
    IF es = Some(RECOVERABLE) THEN "supervisor" ELSE "end"

\* A node returns the dict `update`; the graph writes it to the state
\* (messages through the operator.add reducer, every other key overwritten),
\* streams it to process_task and follows the conditional edge to `dest`.
NodeReturns(update, made_calls, dest) ==
    /\ messages' = messages \o update.messages
    /\ next_agent' = update.next_agent
    /\ error_state' = update.error_state
    /\ results' = update.results
    /\ final_state' = Some([error_state |-> update.error_state,
                            results |-> update.results,
                            messages |-> update.messages])
    /\ calls' = made_calls
    /\ pc' = dest
    /\ steps' = steps + 1
    /\ roof_id' = update.roof_id
    /\ current_task' = update.current_task
    /\ project_id' = update.project_id
    /\ context' = update.context
    /\ UNCHANGED <<ret, function_vars,
                   client_vars>>

\* A node raises: the exception leaves astream and process_task
NodeRaises(made_calls) ==
    /\ pc' = "raised"
    /\ calls' = made_calls
    /\ steps' = steps + 1
    /\ UNCHANGED <<messages, next_agent, error_state, results, roof_id,
                   current_task, project_id, context,
                   final_state, ret, function_vars,
                   client_vars>>

\* {**state}: the dict a node starts its return value from
state == [messages |-> messages, current_task |-> current_task,
          project_id |-> project_id, roof_id |-> roof_id,
          context |-> context, results |-> results,
          next_agent |-> next_agent, error_state |-> error_state]

---------------------------------------------------------------------------
(* Supervisor *)

\* values the Classifier's JSON may give for "agent"
AgentValues == Handlers \cup {"error", "end", "supervisor", "unknown_agent"}

\* What llm.ainvoke gives _analyze_task: the call raises, the content is not
\* JSON, or the content is JSON (a dict with some of the expected keys, or
\* another JSON value).
ClassifierResponses ==
    {[kind |-> "call_failed", is_dict |-> FALSE, keys |-> {},
      agent |-> "end", context_is_mapping |-> TRUE],
     [kind |-> "unparsable", is_dict |-> FALSE, keys |-> {},
      agent |-> "end", context_is_mapping |-> TRUE],
     [kind |-> "json", is_dict |-> FALSE, keys |-> {},
      agent |-> "end", context_is_mapping |-> TRUE]}
    \cup
    [kind : {"json"}, is_dict : {TRUE},
     keys : SUBSET {"agent", "description", "context"},
     agent : AgentValues, context_is_mapping : BOOLEAN]

\* any(word in text for word in words)
any_word_in(words, text) ==
    \E i \in 1..Len(words) : contains(words[i], text)

\* the keywords of the fallback routing
S_create == <<"c","r","e","a","t","e">>
S_pin == <<"p","i","n">>
S_issue == <<"i","s","s","u","e">>
S_defect == <<"d","e","f","e","c","t">>
S_review == <<"r","e","v","i","e","w">>
S_approve == <<"a","p","p","r","o","v","e">>
S_close == <<"c","l","o","s","e">>
S_inspect == <<"i","n","s","p","e","c","t">>
S_nearby == <<"n","e","a","r","b","y">>
S_spatial == <<"s","p","a","t","i","a","l">>
S_region == <<"r","e","g","i","o","n">>
S_proximity == <<"p","r","o","x","i","m","i","t","y">>
S_photo == <<"p","h","o","t","o">>
S_image == <<"i","m","a","g","e">>
S_upload == <<"u","p","l","o","a","d">>
S_picture == <<"p","i","c","t","u","r","e">>
S_report == <<"r","e","p","o","r","t">>
S_export == <<"e","x","p","o","r","t">>
S_analytics == <<"a","n","a","l","y","t","i","c","s">>
S_summary == <<"s","u","m","m","a","r","y">>

\* the final else made "end"
keyword_fallback_default_end(task) ==
    LET task_lower == lower(task)
    IN  IF any_word_in(<<S_create, S_pin, S_issue, S_defect>>, task_lower)
        THEN "pin_ops"
        ELSE IF any_word_in(<<S_review, S_approve, S_close, S_inspect>>,
                            task_lower)
        THEN "qa_reviewer"
        ELSE IF any_word_in(<<S_nearby, S_spatial, S_region, S_proximity>>,
                            task_lower)
        THEN "spatial_analyst"
        ELSE IF any_word_in(<<S_photo, S_image, S_upload, S_picture>>,
                            task_lower)
        THEN "photo_processor"
        ELSE IF any_word_in(<<S_report, S_export, S_analytics, S_summary>>,
                            task_lower)
        THEN "reporter"
        ELSE "end"

\* the review rule tested before the pin rule
keyword_fallback_review_first(task) ==
    LET task_lower == lower(task)
    IN  IF any_word_in(<<S_review, S_approve, S_close, S_inspect>>,
                       task_lower)
        THEN "qa_reviewer"
        ELSE IF any_word_in(<<S_create, S_pin, S_issue, S_defect>>, task_lower)
        THEN "pin_ops"
        ELSE IF any_word_in(<<S_nearby, S_spatial, S_region, S_proximity>>,
                            task_lower)
        THEN "spatial_analyst"
        ELSE IF any_word_in(<<S_photo, S_image, S_upload, S_picture>>,
                            task_lower)
        THEN "photo_processor"
        ELSE IF any_word_in(<<S_report, S_export, S_analytics, S_summary>>,
                            task_lower)
        THEN "reporter"
        ELSE "pin_ops"

\* the except branch of _analyze_task: the agent the keywords of the task
\* text give
keyword_fallback(task) ==
    LET task_lower == lower(task)
    IN  IF any_word_in(<<S_create, S_pin, S_issue, S_defect>>, task_lower)
        THEN "pin_ops"
        ELSE IF any_word_in(<<S_review, S_approve, S_close, S_inspect>>,
                            task_lower)
        THEN "qa_reviewer"
        ELSE IF any_word_in(<<S_nearby, S_spatial, S_region, S_proximity>>,
                            task_lower)
        THEN "spatial_analyst"
        ELSE IF any_word_in(<<S_photo, S_image, S_upload, S_picture>>,
                            task_lower)
        THEN "photo_processor"
        ELSE IF any_word_in(<<S_report, S_export, S_analytics, S_summary>>,
                            task_lower)
        THEN "reporter"
        ELSE "pin_ops"

\* _analyze_task: json.loads of the response, or the keyword fallback on the
\* task text
_analyze_task(response, task) ==
    IF response.kind = "json" THEN response
    ELSE [kind |-> "json", is_dict |-> TRUE,
          keys |-> {"agent", "description", "context"},
          agent |-> keyword_fallback(task), context_is_mapping |-> TRUE]

---------------------------------------------------------------------------
(* Task texts *)

\* words in a task text
MaxWords == 2

\* words of task texts besides the keywords themselves
T_please == <<"p","l","e","a","s","e">>
T_and == <<"a","n","d">>
T_42 == <<"4","2">>
T_roof == <<"r","o","o","f">>
T_creat == <<"c","r","e","a","t">>
T_Create == <<"C","r","e","a","t","e">>
T_ISSUE == <<"I","S","S","U","E">>
T_defects == <<"d","e","f","e","c","t","s">>
T_spinning == <<"s","p","i","n","n","i","n","g">>
T_Closed == <<"C","l","o","s","e","d">>
T_inspector == <<"i","n","s","p","e","c","t","o","r">>
T_NEARBY == <<"N","E","A","R","B","Y">>
T_Region == <<"R","e","g","i","o","n">>
T_photos == <<"p","h","o","t","o","s">>
T_Image == <<"I","m","a","g","e">>
T_UPLOAD == <<"U","P","L","O","A","D">>
T_Reporter == <<"R","e","p","o","r","t","e","r">>
T_Analytics == <<"A","n","a","l","y","t","i","c","s">>

Vocabulary ==
    {S_pin, S_review, S_approve, S_spatial, S_proximity, S_picture,
     S_export, S_summary, T_please, T_and, T_42, T_roof, T_creat, T_Create,
     T_ISSUE, T_defects, T_spinning, T_Closed, T_inspector, T_NEARBY,
     T_Region, T_photos, T_Image, T_UPLOAD, T_Reporter, T_Analytics}

\* the words joined by single spaces
RECURSIVE Join(_)
Join(words) ==
    IF words = <<>> THEN <<>>
    ELSE IF Len(words) = 1 THEN words[1]
    ELSE words[1] \o <<" ">> \o Join(Tail(words))

PLEASE_REVIEW_AND_APPROVE_PIN_42 ==
    Join(<<T_please, S_review, T_and, S_approve, S_pin, T_42>>)

\* the task texts _analyze_task is run on
TaskTexts ==
    {Join(words) : words \in UNION {[1..n -> Vocabulary] : n \in 0..MaxWords}}
    \cup {PLEASE_REVIEW_AND_APPROVE_PIN_42}

\* the task texts the Supervisor reads in a workflow run
WorkflowTasks ==
    {<<>>, T_roof, Join(<<T_Create, T_roof>>), Join(<<T_Closed, T_photos>>),
     T_NEARBY, T_UPLOAD, Join(<<T_please, S_export>>),
     PLEASE_REVIEW_AND_APPROVE_PIN_42}

_supervisor_node ==
    /\ pc = "supervisor"
    /\ steps < MaxSteps
    /\ IF messages = <<>>
       THEN LET update == [state EXCEPT !.next_agent = "end",
                                       !.messages = <<"supervisor">>]
            IN  NodeReturns(update, <<>>,
                    ConditionalEdge(SupervisorEdges, _route_to_agent("end")))
       ELSE \E response \in ClassifierResponses :
            \E task \in IF response.kind = "unparsable"
                        THEN WorkflowTasks ELSE {<<>>} :
              LET task_analysis == _analyze_task(response, task)
                  update == [state EXCEPT !.messages = <<"supervisor">>,
                                          !.next_agent = task_analysis.agent]
              IN  IF \/ response.kind = "call_failed"
                     \/ ~task_analysis.is_dict
                     \/ ~({"agent", "description"} \subseteq task_analysis.keys)
                     \/ /\ "context" \in task_analysis.keys
                        /\ ~task_analysis.context_is_mapping
                  THEN NodeRaises(<<>>)
                  ELSE NodeReturns(update, <<>>,
                          ConditionalEdge(SupervisorEdges,
                              _route_to_agent(update.next_agent)))

---------------------------------------------------------------------------
(* Tool Gateway and shared agent helpers (BaseAgent) *)

\* _call_mcp_tool: the client's result wrapped as success, or its exception
\* caught and wrapped as failure; `ok` is what the gateway did
_call_mcp_tool(ok) == [success |-> ok]

\* one gateway call as `calls` records it: the tool, the keys of the
\* arguments dict, whether it succeeded, and the pin it returned (Optional)
Call(tool, arguments, success, data) ==
    [tool |-> tool, arguments |-> arguments, success |-> success,
     data |-> data]

\* only the first missing field named
_validate_inputs_first_only(dict, required_fields) ==
    LET missing == SelectSeq(required_fields,
            LAMBDA field : field \notin DOMAIN dict \/ dict[field] = None)
    IN  IF missing = <<>> THEN <<>> ELSE <<missing[1]>>

\* _validate_inputs: the required fields that are absent or None, in order
\* (the Python returns None when there is none, an error text naming them
\* otherwise)
_validate_inputs(dict, required_fields) ==
    SelectSeq(required_fields,
              LAMBDA field : field \notin DOMAIN dict \/ dict[field] = None)

\* {**a, **b}
Merge(a, b) ==
    [k \in (DOMAIN a) \cup (DOMAIN b) |-> IF k \in DOMAIN b THEN b[k] ELSE a[k]]

\* What _extract_json_from_text gives a handler for the Classifier's reply:
\* None (no JSON in it, or the call failed), a JSON value Python treats as
\* false ({} [] 0 "" null), another JSON value that is not a dict, or a dict.
AnalysisKinds == {"none", "falsy", "nondict", "dict"}

\* A Classifier reply as the pieces between its blanks: prose, the text of
\* a failed call, the fence markers, JSON values, a double quote
PROSE == "Here is the analysis"

LLM_ERROR == "Error calling LLM: connection refused"

\* three backquotes and json; three backquotes
FENCE_JSON == "~~~json"

FENCE == "~~~"

EMPTY_OBJECT == "{}"

LIST == "[1]"

OPERATION == "{\"operation\": \"search_pins\", \"parameters\": {}}"

QUOTE == "\""

ResponseTokens ==
    {PROSE, LLM_ERROR, FENCE_JSON, FENCE, EMPTY_OBJECT, LIST, OPERATION, QUOTE}

\* json.loads of a text (blanks around it stripped): Some(value), or None
\* when it raises. A text between two quotes with no quote inside is a JSON
\* string.
json_loads(text) ==
    IF Len(text) = 1 /\ text[1] \in {EMPTY_OBJECT, LIST, OPERATION}
    THEN Some(text[1])
    ELSE IF /\ Len(text) >= 2
            /\ text[1] = QUOTE
            /\ text[Len(text)] = QUOTE
            /\ \A i \in 2..(Len(text) - 1) : text[i] # QUOTE
    THEN Some(IF Len(text) = 2 THEN "empty_string" ELSE "string")
    ELSE None

\* text.find(marker, start): the first piece from start on that begins with
\* the marker, 0 for -1. The opening fence begins with the closing one.
find(text, markers, start) ==
    LET found == {i \in start..Len(text) : text[i] \in markers}
    IN  IF found = {} THEN 0 ELSE CHOOSE i \in found : \A j \in found : i <= j

\* _extract_json_from_text: Some(value), or None for Python's None; an
\* exception of json.loads is caught and gives None
_extract_json_from_text(text) ==
    LET start == find(text, {FENCE_JSON}, 1) + 1
        end == find(text, {FENCE, FENCE_JSON}, start)
    IN  IF start > 1 /\ end # 0
        THEN json_loads(SubSeq(text, start, end - 1))
        ELSE json_loads(text)

---------------------------------------------------------------------------
(* Pin operations agent *)

PinOperations ==
    {"create_pin", "update_pin_status", "create_pin_child", "search_pins",
     "find_nearby_pins"}

ParamKeys == {"roof_id", "x", "y"}

\* the "parameters" dicts of an operation analysis: any of roof_id, x, y
\* absent, null or given
PinParams == UNION {[K -> {None, Some(1)}] : K \in SUBSET ParamKeys}

PinAnalyses ==
    [kind : {"none", "falsy", "nondict"}, operation : {"create_pin"},
     params_is_mapping : {TRUE}, parameters : {EmptyDict}]
    \cup
    [kind : {"dict"}, operation : PinOperations \cup {"other"},
     params_is_mapping : {TRUE}, parameters : PinParams]
    \cup
    [kind : {"dict"}, operation : PinOperations \cup {"other"},
     params_is_mapping : {FALSE}, parameters : {EmptyDict}]

\* _analyze_pin_operation: the Classifier's reply extracted, as the handler
\* reads it
_analyze_pin_operation(response) ==
    LET extracted == _extract_json_from_text(response)
        other(kind) == [kind |-> kind, operation |-> "create_pin",
                        params_is_mapping |-> TRUE, parameters |-> EmptyDict]
    IN  IF extracted = None THEN other("none")
        ELSE IF extracted[1] \in {EMPTY_OBJECT, "empty_string"}
        THEN other("falsy")
        ELSE IF extracted[1] = OPERATION
        THEN [kind |-> "dict", operation |-> "search_pins",
              params_is_mapping |-> TRUE, parameters |-> EmptyDict]
        ELSE other("nondict")

\* the keys of WorkflowState that _create_pin's validation can read
StateFields == [roof_id |-> roof_id]

\* A result dict of the agent. "missing" holds the fields a validation error
\* names; "nearby_count" is create_pin's "nearby_pins" and find_nearby_pins'
\* results["count"]; an absent key is None.
PinResult(action, success, error, missing, made_calls) ==
    [raised |-> FALSE,
     result |-> [action |-> action, success |-> success, error |-> error,
                 missing |-> missing, nearby_count |-> None,
                 recommendations |-> None],
     calls |-> made_calls]

PinRaised(made_calls) ==
    [raised |-> TRUE,
     result |-> [action |-> "", success |-> FALSE, error |-> "",
                 missing |-> <<>>, nearby_count |-> None,
                 recommendations |-> None],
     calls |-> made_calls]

\* the "status" values of the pins find_nearby_pins returns
NearbyStatuses == {"Open", "Closed"}

\* what find_nearby_pins answers in a workflow run: a failure, or one open pin
WorkflowNearby == {None, Some(<<"Open">>)}

\* _generate_pin_recommendations
_generate_pin_recommendations(nearby_pins) ==
    (IF Len(nearby_pins) > 3
     THEN <<"High pin density detected - consider consolidating related issues">>
     ELSE <<>>)
    \o
    (IF \E i \in 1..Len(nearby_pins) : nearby_pins[i] = "Open"
     THEN <<"Open pins nearby - coordinate resolution efforts">>
     ELSE <<>>)

\* the second recommendation left out above 5 pins
_generate_proximity_recommendations_one_above_5(nearby_pins) ==
    IF Len(nearby_pins) = 0
    THEN <<"No nearby pins - isolated issue">>
    ELSE IF Len(nearby_pins) > 5
    THEN <<"High concentration area - may indicate systemic issue">>
    ELSE <<>>

\* _generate_proximity_recommendations
_generate_proximity_recommendations(nearby_pins) ==
    IF Len(nearby_pins) = 0
    THEN <<"No nearby pins - isolated issue">>
    ELSE IF Len(nearby_pins) > 5
    THEN <<"High concentration area - may indicate systemic issue",
           "Consider pattern analysis and root cause investigation">>
    ELSE <<>>

\* _create_pin; nearby is what find_nearby_pins answers (None: the call
\* failed, else the statuses of the pins found)
_create_pin(operation, nearby, tool_ok) ==
    IF ~operation.params_is_mapping THEN PinRaised(<<>>)
    ELSE
    LET params == operation.parameters
        validation_error ==
            _validate_inputs(Merge(params, StateFields), <<"roof_id", "x", "y">>)
        nearby_result == _call_mcp_tool(nearby # None)
        nearby_pins == IF nearby_result.success THEN nearby[1] ELSE <<>>
        create_result == _call_mcp_tool(tool_ok)
        made_calls ==
            <<Call("find_nearby_pins", {"roof_id", "x", "y", "radius_meters"},
                   nearby_result.success, None),
              Call("create_pin", DOMAIN params, create_result.success, None)>>
        failure == PinResult("create_pin", FALSE, "tool", <<>>, made_calls)
        created == PinResult("create_pin", TRUE, "none", <<>>, made_calls)
    IN  IF validation_error # <<>>
        THEN PinResult("create_pin", FALSE, "validation", validation_error, <<>>)
        ELSE IF ~(ParamKeys \subseteq DOMAIN params)
        THEN PinRaised(<<>>)      \* params["roof_id"]: KeyError
        ELSE IF ~create_result.success
        THEN [failure EXCEPT !.result.nearby_count = Some(Len(nearby_pins))]
        ELSE [created EXCEPT
                 !.result.nearby_count = Some(Len(nearby_pins)),
                 !.result.recommendations =
                     Some(_generate_pin_recommendations(nearby_pins))]

\* _update_pin_status, _create_pin_child, _search_pins: one gateway call,
\* whose success is the result's
_single_call_operation(op_type, params, tool_ok) ==
    LET result == _call_mcp_tool(tool_ok)
    IN  PinResult(op_type, result.success,
                  IF result.success THEN "none" ELSE "tool", <<>>,
                  <<Call(op_type, DOMAIN params, result.success, None)>>)

\* _find_nearby_pins
_find_nearby_pins(params, nearby) ==
    LET result == _call_mcp_tool(nearby # None)
        made_calls == <<Call("find_nearby_pins", DOMAIN params,
                             result.success, None)>>
        found == PinResult("find_nearby_pins", TRUE, "none", <<>>, made_calls)
    IN  IF result.success
        THEN [found EXCEPT
                 !.result.nearby_count = Some(Len(nearby[1])),
                 !.result.recommendations =
                     Some(_generate_proximity_recommendations(nearby[1]))]
        ELSE PinResult("find_nearby_pins", FALSE, "tool", <<>>, made_calls)

_execute_operation(operation, nearby, tool_ok) ==
    LET op_type == operation.operation
    IN  IF op_type = "create_pin"
        THEN _create_pin(operation, nearby, tool_ok)
        ELSE IF op_type = "find_nearby_pins"
        THEN IF operation.params_is_mapping \/ nearby = None
             THEN _find_nearby_pins(operation.parameters, nearby)
             ELSE PinRaised(<<Call("find_nearby_pins", {}, TRUE, None)>>)
                 \* params.get("radius_meters", 10): AttributeError
        ELSE IF op_type \in PinOperations
        THEN _single_call_operation(op_type, operation.parameters, tool_ok)
        ELSE PinResult("unknown_operation", FALSE, "unknown_operation",
                       <<>>, <<>>)

\* what process returns: the dict for the graph, or an exception
Returned(update, made_calls) ==
    [raised |-> FALSE, update |-> update, calls |-> made_calls]

Raised(made_calls) ==
    [raised |-> TRUE, update |-> state, calls |-> made_calls]

\* an unparsable analysis answered with a default search
PinOpsAgent_process_outcome_fallback(operation_analysis, nearby, tool_ok) ==
    IF messages = <<>>
    THEN Returned([state EXCEPT !.error_state = Some(NO_TASK_MESSAGE),
                                !.next_agent = "end"], <<>>)
    ELSE IF operation_analysis.kind = "nondict"
    THEN Raised(<<>>)
    ELSE LET done == IF operation_analysis.kind \in {"none", "falsy"}
                     THEN _single_call_operation("search_pins", EmptyDict,
                                                 tool_ok)
                     ELSE _execute_operation(operation_analysis, nearby,
                                             tool_ok)
             result == done.result
         IN  IF done.raised THEN Raised(done.calls)
             ELSE Returned([state EXCEPT
                               !.messages = <<"PinOps">>,
                               !.results = Put(results, "pin_ops", result),
                               !.next_agent =
                                   IF result.success THEN "end" ELSE "error"],
                           done.calls)

\* PinOpsAgent.process(state), given what _analyze_pin_operation extracts
\* from the Classifier's reply and what the gateway answers
PinOpsAgent_process_outcome(operation_analysis, nearby, tool_ok) ==
    IF messages = <<>>
    THEN Returned([state EXCEPT !.error_state = Some(NO_TASK_MESSAGE),
                                !.next_agent = "end"], <<>>)
    ELSE IF operation_analysis.kind \in {"none", "falsy"}
    THEN Returned([state EXCEPT !.error_state = Some(NO_PIN_ANALYSIS),
                                !.next_agent = "end"], <<>>)
    ELSE IF operation_analysis.kind = "nondict"
    THEN Raised(<<>>)       \* operation.get: AttributeError
    ELSE LET done == _execute_operation(operation_analysis, nearby, tool_ok)
             result == done.result
         IN  IF done.raised THEN Raised(done.calls)
             ELSE Returned([state EXCEPT
                               !.messages = <<"PinOps">>,
                               !.results = Put(results, "pin_ops", result),
                               !.next_agent =
                                   IF result.success THEN "end" ELSE "error"],
                           done.calls)

\* the node: process runs, the graph takes what it returns
PinOpsAgent_process ==
    /\ pc = "pin_ops"
    /\ steps < MaxSteps
    /\ \E operation_analysis \in PinAnalyses,
          nearby \in WorkflowNearby, tool_ok \in BOOLEAN :
           LET outcome == PinOpsAgent_process_outcome(operation_analysis,
                                                      nearby, tool_ok)
           IN  IF outcome.raised THEN NodeRaises(outcome.calls)
               ELSE NodeReturns(outcome.update, outcome.calls,
                        ConditionalEdge(AgentEdges,
                            _agent_completion_router(
                                outcome.update.error_state,
                                outcome.update.next_agent)))

---------------------------------------------------------------------------
(* QA reviewer agent *)

\* pin ids reviewed by one pin_review or batch_review
MaxPins == 2

\* largest count in an analytics breakdown
MaxCount == 3

QAOperations ==
    {"pin_review", "batch_review", "inspection_schedule", "quality_audit",
     "pattern_analysis"}

Decisions == {"APPROVE", "REJECT", "REQUEST_MORE_INFO", "ESCALATE"}

\* A pin as the gateway returns it: which optional fields are present, the
\* status, the length of corrective_action, the children's status_child.
Pin(photo, status, notes, action_len, children, opened, due) ==
    [closing_photo_url |-> photo, status |-> status, notes |-> notes,
     corrective_action_len |-> action_len, pin_children |-> children,
     opened_at |-> opened, due_date |-> due]

\* the pins a review is run on in the workflow
WorkflowPins ==
    {Pin(TRUE, "ReadyForInspection", TRUE, 11, <<>>, FALSE, FALSE),
     Pin(TRUE, "ReadyForInspection", TRUE, 0, <<"Closed">>, TRUE, FALSE),
     Pin(TRUE, "ReadyForInspection", FALSE, 0, <<>>, FALSE, TRUE),
     Pin(FALSE, "ReadyForInspection", TRUE, 11, <<>>, FALSE, FALSE),
     Pin(TRUE, "Open", TRUE, 11, <<"Closed", "Open">>, FALSE, FALSE),
     Pin(TRUE, "ReadyForInspection", TRUE, 11, <<>>, TRUE, TRUE)}

\* one search_pins lookup of a pin id: whether the gateway call succeeded,
\* and the pin it returned
PinLookups ==
    [found : {TRUE}, pin : WorkflowPins]
    \cup {[found |-> FALSE,
           pin |-> Pin(FALSE, "Open", FALSE, 0, <<>>, FALSE, FALSE)]}

LookupLists == UNION {[1..n -> PinLookups] : n \in 0..MaxPins}

\* get_pin_analytics data: status_breakdown {"Closed", "Open"} and the
\* counts of zone_breakdown (no zone, one or two)
Analytics ==
    [closed : 0..MaxCount, open : 0..MaxCount,
     zones : UNION {[1..n -> 0..MaxCount] : n \in 0..2}]

\* the analytics a quality audit reads in a workflow run
WorkflowAnalytics ==
    {[closed |-> 0, open |-> 0, zones |-> <<>>],
     [closed |-> 0, open |-> 2, zones |-> <<>>],
     [closed |-> 3, open |-> 0, zones |-> <<3>>],
     [closed |-> 3, open |-> 0, zones |-> <<1, 1>>],
     [closed |-> 3, open |-> 2, zones |-> <<1>>],
     [closed |-> 1, open |-> 1, zones |-> <<0, 0>>]}

\* _apply_qa_criteria; the three quality checks are Optional[bool]
_apply_qa_criteria(pin_data) ==
    [raised |-> pin_data.opened_at /\ pin_data.due_date,
         \* datetime is the module here: datetime.fromisoformat raises
     checks |->
        [has_closing_photo |-> pin_data.closing_photo_url,
         status_ready_for_review |-> pin_data.status = "ReadyForInspection",
         has_documentation |->
             Some(pin_data.notes \/ pin_data.corrective_action_len > 0),
         all_children_closed |->
             \A i \in 1..Len(pin_data.pin_children) :
                 pin_data.pin_children[i] = "Closed",
         within_sla |-> None,
         resolution_appropriate |->
             Some(pin_data.corrective_action_len > 0
                  /\ pin_data.corrective_action_len > 10)]]

\* None counted as 0
Score2_unknown_as_false(value) ==
    IF value = Some(TRUE) THEN 2
    ELSE 0

\* twice the quality score of one check: True 1, None 0.5, anything else 0
Score2(value) ==
    IF value = Some(TRUE) THEN 2
    ELSE IF value = None THEN 1
    ELSE 0

\* all_children_closed left out of the critical checks
_make_qa_decision_two_critical(checks) ==
    LET critical_failures ==
            SelectSeq(<<"has_closing_photo", "status_ready_for_review">>,
                      LAMBDA check : ~checks[check])
        quality_score2 ==
            Score2(checks.has_documentation)
            + Score2(checks.within_sla)
            + Score2(checks.resolution_appropriate)
    IN  IF critical_failures # <<>>
        THEN [decision |-> "REJECT", confidence |-> 95,
              critical_failures |-> critical_failures]
        ELSE IF 10 * quality_score2 >= 8 * 6
        THEN [decision |-> "APPROVE", confidence |-> 90,
              critical_failures |-> <<>>]
        ELSE IF 10 * quality_score2 >= 6 * 6
        THEN [decision |-> "REQUEST_MORE_INFO", confidence |-> 70,
              critical_failures |-> <<>>]
        ELSE [decision |-> "REJECT", confidence |-> 80,
              critical_failures |-> <<>>]

\* _make_qa_decision; confidence in hundredths, the rationale as the list of
\* failed critical checks it names
_make_qa_decision(checks) ==
    LET critical_failures ==
            SelectSeq(<<"has_closing_photo", "status_ready_for_review",
                        "all_children_closed">>,
                      LAMBDA check : ~checks[check])
        quality_score2 ==
            Score2(checks.has_documentation)
            + Score2(checks.within_sla)
            + Score2(checks.resolution_appropriate)
        \* quality_ratio = quality_score2 / (2 * 3)
    IN  IF critical_failures # <<>>
        THEN [decision |-> "REJECT", confidence |-> 95,
              critical_failures |-> critical_failures]
        ELSE IF 10 * quality_score2 >= 8 * 6
        THEN [decision |-> "APPROVE", confidence |-> 90,
              critical_failures |-> <<>>]
        ELSE IF 10 * quality_score2 >= 6 * 6
        THEN [decision |-> "REQUEST_MORE_INFO", confidence |-> 70,
              critical_failures |-> <<>>]
        ELSE [decision |-> "REJECT", confidence |-> 80,
              critical_failures |-> <<>>]

\* a pin that could not be retrieved escalated
_review_single_pin_escalates_unfound(lookup) ==
    LET search_result == _call_mcp_tool(lookup.found)
        applied == _apply_qa_criteria(lookup.pin)
        decision == _make_qa_decision(applied.checks)
    IN  IF ~search_result.success
        THEN [raised |-> FALSE, decision |-> "ESCALATE",
              confidence |-> 0, criteria_checks |-> None]
        ELSE IF applied.raised
        THEN [raised |-> TRUE, decision |-> "", confidence |-> 0,
              criteria_checks |-> None]
        ELSE [raised |-> FALSE, decision |-> decision.decision,
              confidence |-> decision.confidence,
              criteria_checks |-> Some(applied.checks)]

\* the failure of the search_pins call not tested
_review_single_pin_unchecked(lookup) ==
    LET search_result == _call_mcp_tool(lookup.found)
        applied == _apply_qa_criteria(lookup.pin)
        decision == _make_qa_decision(applied.checks)
    IN  IF FALSE
        THEN [raised |-> FALSE, decision |-> "REQUEST_MORE_INFO",
              confidence |-> 0, criteria_checks |-> None]
        ELSE IF applied.raised
        THEN [raised |-> TRUE, decision |-> "", confidence |-> 0,
              criteria_checks |-> None]
        ELSE [raised |-> FALSE, decision |-> decision.decision,
              confidence |-> decision.confidence,
              criteria_checks |-> Some(applied.checks)]

\* _review_single_pin
_review_single_pin(lookup) ==
    LET search_result == _call_mcp_tool(lookup.found)
        applied == _apply_qa_criteria(lookup.pin)
        decision == _make_qa_decision(applied.checks)
    IN  IF ~search_result.success
        THEN [raised |-> FALSE, decision |-> "REQUEST_MORE_INFO",
              confidence |-> 0, criteria_checks |-> None]
        ELSE IF applied.raised
        THEN [raised |-> TRUE, decision |-> "", confidence |-> 0,
              criteria_checks |-> None]
        ELSE [raised |-> FALSE, decision |-> decision.decision,
              confidence |-> decision.confidence,
              criteria_checks |-> Some(applied.checks)]

\* a review result without "summary", "next_steps" and "quality_indicators"
\* keys
QAResult(decision, individual, made_calls) ==
    [raised |-> FALSE,
     result |-> [decision |-> decision, individual_results |-> individual,
                 summary |-> None, next_steps |-> None,
                 quality_indicators |-> None],
     calls |-> made_calls]

QARaised(made_calls) ==
    [raised |-> TRUE,
     result |-> [decision |-> "", individual_results |-> <<>>,
                 summary |-> None, next_steps |-> None,
                 quality_indicators |-> None],
     calls |-> made_calls]

\* len([r for r in review_results if r["decision"] == value])
CountDecision(review_results, value) ==
    Len(SelectSeq(review_results, LAMBDA r : r.decision = value))

\* every result that is not an approval counted as rejected
_generate_review_summary_rest_rejected(review_results) ==
    LET total == Len(review_results)
        approved == CountDecision(review_results, "APPROVE")
    IN  [total_reviewed |-> total,
         approved |-> approved,
         rejected |-> total - approved,
         escalated |-> CountDecision(review_results, "ESCALATE"),
         approval_rate |->
             IF total > 0 THEN <<approved, total>> ELSE <<0, 1>>]

\* _generate_review_summary; approval_rate as <<numerator, denominator>>
_generate_review_summary(review_results) ==
    LET total == Len(review_results)
        approved == CountDecision(review_results, "APPROVE")
    IN  [total_reviewed |-> total,
         approved |-> approved,
         rejected |-> CountDecision(review_results, "REJECT"),
         escalated |-> CountDecision(review_results, "ESCALATE"),
         approval_rate |->
             IF total > 0 THEN <<approved, total>> ELSE <<0, 1>>]

_determine_next_steps(overall, review_results) ==
    IF overall = "APPROVE"
    THEN <<"Update pin statuses to Closed",
           "Notify stakeholders of completions", "Update project metrics">>
    ELSE IF overall = "REJECT"
    THEN <<"Notify field teams of rejections",
           "Provide specific remediation guidance", "Schedule re-inspection">>
    ELSE IF overall = "ESCALATE"
    THEN <<"Prepare escalation summary", "Schedule supervisor review",
           "Document complex issues">>
    ELSE <<>>

\* all() replaced by any()
overall_decision_any_approved(review_results) ==
    LET all_approved ==
            \E i \in 1..Len(review_results) :
                review_results[i].decision = "APPROVE"
        any_escalated ==
            \E i \in 1..Len(review_results) :
                review_results[i].decision = "ESCALATE"
    IN  IF any_escalated THEN "ESCALATE"
        ELSE IF all_approved THEN "APPROVE"
        ELSE "REJECT"

\* only the first result tested for ESCALATE
overall_decision_first_escalated(review_results) ==
    LET all_approved ==
            \A i \in 1..Len(review_results) :
                review_results[i].decision = "APPROVE"
        any_escalated == review_results[1].decision = "ESCALATE"
    IN  IF any_escalated THEN "ESCALATE"
        ELSE IF all_approved THEN "APPROVE"
        ELSE "REJECT"

\* the aggregate decision of _review_pins
overall_decision(review_results) ==
    LET all_approved ==
            \A i \in 1..Len(review_results) :
                review_results[i].decision = "APPROVE"
        any_escalated ==
            \E i \in 1..Len(review_results) :
                review_results[i].decision = "ESCALATE"
    IN  IF any_escalated THEN "ESCALATE"
        ELSE IF all_approved THEN "APPROVE"
        ELSE "REJECT"

\* the dict _review_pins returns for the single-pin results it collected
ReviewOf(review_results) ==
    [decision |-> overall_decision(review_results),
     individual_results |-> review_results,
     summary |-> Some(_generate_review_summary(review_results)),
     next_steps |->
         Some(_determine_next_steps(overall_decision(review_results),
                                    review_results)),
     quality_indicators |-> None]

\* the dict _review_pins returns when it is given no pin id
NoPinIds ==
    [decision |-> "REQUEST_MORE_INFO", individual_results |-> <<>>,
     summary |-> None, next_steps |-> None, quality_indicators |-> None]

\* the loop of _review_pins over the first n pin ids: the reviews made so
\* far, and whether one of them raised
RECURSIVE ReviewLoop(_, _)
ReviewLoop(lookups, n) ==
    IF n = 0 THEN [raised |-> FALSE, review_results |-> <<>>, calls |-> <<>>]
    ELSE LET before == ReviewLoop(lookups, n - 1)
             pin_review == _review_single_pin(lookups[n])
         IN  IF before.raised THEN before
             ELSE [raised |-> pin_review.raised,
                   review_results |->
                       IF pin_review.raised THEN before.review_results
                       ELSE Append(before.review_results,
                                   [decision |-> pin_review.decision,
                                    confidence |-> pin_review.confidence,
                                    criteria_checks |->
                                        pin_review.criteria_checks]),
                   calls |->
                       Append(before.calls,
                              Call("search_pins", {"pin_ids"},
                                   lookups[n].found,
                                   IF lookups[n].found
                                   THEN Some(lookups[n].pin) ELSE None))]

\* without the early return for an empty pin_ids
_review_pins_unguarded(lookups, earlier_calls) ==
    LET loop == ReviewLoop(lookups, Len(lookups))
    IN  IF loop.raised THEN QARaised(earlier_calls \o loop.calls)
        ELSE [raised |-> FALSE, result |-> ReviewOf(loop.review_results),
              calls |-> earlier_calls \o loop.calls]

\* _review_pins; earlier_calls are the gateway calls its caller made
_review_pins(lookups, earlier_calls) ==
    LET loop == ReviewLoop(lookups, Len(lookups))
    IN  IF lookups = <<>>
        THEN [raised |-> FALSE, result |-> NoPinIds, calls |-> earlier_calls]
        ELSE IF loop.raised THEN QARaised(earlier_calls \o loop.calls)
        ELSE [raised |-> FALSE, result |-> ReviewOf(loop.review_results),
              calls |-> earlier_calls \o loop.calls]

\* _batch_review: the search for pins ready for review, then _review_pins
_batch_review(search_ok, lookups) ==
    LET search_result == _call_mcp_tool(search_ok)
        made_call == Call("search_pins", {"roof_id", "status", "limit"},
                          search_result.success, None)
    IN  IF ~search_result.success
        THEN QAResult("REQUEST_MORE_INFO", <<>>, <<made_call>>)
        ELSE _review_pins(lookups, <<made_call>>)

\* sum of a sequence of naturals
RECURSIVE Sum(_)
Sum(seq) == IF seq = <<>> THEN 0 ELSE seq[1] + Sum(Tail(seq))

\* largest element of a non-empty sequence of naturals
Max(seq) == CHOOSE m \in {seq[i] : i \in 1..Len(seq)} :
                \A i \in 1..Len(seq) : seq[i] <= m

\* f < g, f = g on fractions <<numerator, denominator>>
LessFrac(f, g) == f[1] * g[2] < g[1] * f[2]

SameFrac(f, g) == f[1] * g[2] = g[1] * f[2]

\* f + g
AddFrac(f, g) == <<f[1] * g[2] + g[1] * f[2], f[2] * g[2]>>

RECURSIVE SumFrac(_)
SumFrac(fracs) ==
    IF fracs = <<>> THEN <<0, 1>>
    ELSE AddFrac(fracs[1], SumFrac(Tail(fracs)))

\* sum(scores) / len(scores) if scores else 0.5
MeanFrac(scores) ==
    IF scores = <<>> THEN <<1, 2>>
    ELSE <<SumFrac(scores)[1], SumFrac(scores)[2] * Len(scores)>>

\* closure_rate left at 0 when the status breakdown is empty
_analyze_quality_metrics_zero_closure(analytics) ==
    LET total == analytics.closed + analytics.open
        closed == analytics.closed
        zone_breakdown == analytics.zones
        total_pins == Sum(zone_breakdown)
        closure_rate ==
            IF total > 0 THEN Some(<<closed, total>>) ELSE Some(<<0, 1>>)
        response_time_score == <<8, 10>>
        concentration_ratio ==
            IF Len(zone_breakdown) > 0
            THEN IF total_pins > 0
                 THEN Some(<<Max(zone_breakdown), total_pins>>)
                 ELSE Some(<<0, 1>>)
            ELSE None
        scores == closure_rate \o <<response_time_score>>
                  \o concentration_ratio
    IN  [closure_rate |-> closure_rate,
         response_time_score |-> response_time_score,
         concentration_ratio |-> concentration_ratio,
         scores |-> scores,
         overall_score |-> MeanFrac(scores),
         recommendations |->
             (IF closure_rate # None /\ LessFrac(closure_rate[1], <<7, 10>>)
              THEN <<"Low closure rate - review workflow efficiency">>
              ELSE <<>>)
             \o
             (IF concentration_ratio # None
                 /\ LessFrac(<<5, 10>>, concentration_ratio[1])
              THEN <<"High concentration in single zone - investigate systemic issues">>
              ELSE <<>>)]

\* the placeholder response_time_score left out of the scores
_analyze_quality_metrics_no_placeholder(analytics) ==
    LET total == analytics.closed + analytics.open
        closed == analytics.closed
        zone_breakdown == analytics.zones
        total_pins == Sum(zone_breakdown)
        closure_rate == IF total > 0 THEN Some(<<closed, total>>) ELSE None
        response_time_score == <<8, 10>>
        concentration_ratio ==
            IF Len(zone_breakdown) > 0
            THEN IF total_pins > 0
                 THEN Some(<<Max(zone_breakdown), total_pins>>)
                 ELSE Some(<<0, 1>>)
            ELSE None
        scores == closure_rate \o concentration_ratio
    IN  [closure_rate |-> closure_rate,
         response_time_score |-> response_time_score,
         concentration_ratio |-> concentration_ratio,
         scores |-> scores,
         overall_score |-> MeanFrac(scores),
         recommendations |->
             (IF closure_rate # None /\ LessFrac(closure_rate[1], <<7, 10>>)
              THEN <<"Low closure rate - review workflow efficiency">>
              ELSE <<>>)
             \o
             (IF concentration_ratio # None
                 /\ LessFrac(<<5, 10>>, concentration_ratio[1])
              THEN <<"High concentration in single zone - investigate systemic issues">>
              ELSE <<>>)]

\* _analyze_quality_metrics: the indicators as exact fractions
\* <<numerator, denominator>>, an absent indicator as None, and the numeric
\* indicators in the order the dict holds them
_analyze_quality_metrics(analytics) ==
    LET total == analytics.closed + analytics.open
        closed == analytics.closed
        zone_breakdown == analytics.zones
        total_pins == Sum(zone_breakdown)
        closure_rate == IF total > 0 THEN Some(<<closed, total>>) ELSE None
        response_time_score == <<8, 10>>
        concentration_ratio ==
            IF Len(zone_breakdown) > 0
            THEN IF total_pins > 0
                 THEN Some(<<Max(zone_breakdown), total_pins>>)
                 ELSE Some(<<0, 1>>)
            ELSE None
        scores == closure_rate \o <<response_time_score>>
                  \o concentration_ratio
    IN  [closure_rate |-> closure_rate,
         response_time_score |-> response_time_score,
         concentration_ratio |-> concentration_ratio,
         scores |-> scores,
         overall_score |-> MeanFrac(scores),
         recommendations |->
             (IF closure_rate # None /\ LessFrac(closure_rate[1], <<7, 10>>)
              THEN <<"Low closure rate - review workflow efficiency">>
              ELSE <<>>)
             \o
             (IF concentration_ratio # None
                 /\ LessFrac(<<5, 10>>, concentration_ratio[1])
              THEN <<"High concentration in single zone - investigate systemic issues">>
              ELSE <<>>)]

\* The <<closure_rate, concentration_ratio>> pairs (denominators up to 10)
\* whose exact mean with 0.8 is 0.8 while the double the code computes,
\* (closure_rate + 0.8 + concentration_ratio) / 3, is 0.7999999999999999.
\* Every other list of scores over these denominators compares with 0.8 in
\* doubles as it does exactly.
RoundsBelow80 ==
    {<<(<<3, 5>>), (<<1, 1>>)>>, <<(<<5, 8>>), (<<39, 40>>)>>,
     <<(<<7, 10>>), (<<9, 10>>)>>, <<(<<5, 7>>), (<<31, 35>>)>>,
     <<(<<3, 4>>), (<<17, 20>>)>>, <<(<<5, 6>>), (<<23, 30>>)>>,
     <<(<<6, 7>>), (<<26, 35>>)>>, <<(<<7, 8>>), (<<29, 40>>)>>,
     <<(<<8, 9>>), (<<32, 45>>)>>, <<(<<1, 1>>), (<<3, 5>>)>>}

\* the exact comparison, without the rounding of the sum
ScoreAtLeast80_exact(scores) ==
    ~LessFrac(MeanFrac(scores), <<8, 10>>)

\* overall_score >= 0.8 on the doubles the code computes
ScoreAtLeast80(scores) ==
    /\ ~LessFrac(MeanFrac(scores), <<8, 10>>)
    /\ ~(/\ Len(scores) = 3
         /\ \E pair \in RoundsBelow80 :
                SameFrac(scores[1], pair[1]) /\ SameFrac(scores[3], pair[2]))

\* the decision of _quality_audit for the indicators
audit_decision(quality_indicators) ==
    IF ScoreAtLeast80(quality_indicators.scores) THEN "APPROVE"
    ELSE "ESCALATE"

\* _quality_audit
_quality_audit(analytics_ok, analytics) ==
    LET analytics_result == _call_mcp_tool(analytics_ok)
        quality_indicators == _analyze_quality_metrics(analytics)
        made_call == Call("get_pin_analytics", {"roof_id", "time_range"},
                          analytics_result.success, None)
    IN  IF ~analytics_result.success
        THEN QAResult("REQUEST_MORE_INFO", <<>>, <<made_call>>)
        ELSE [raised |-> FALSE,
              result |-> [decision |-> audit_decision(quality_indicators),
                          individual_results |-> <<>>,
                          summary |-> None, next_steps |-> None,
                          quality_indicators |-> Some(quality_indicators)],
              calls |-> <<made_call>>]

_execute_review(analysis, search_ok, lookups, analytics) ==
    LET operation == analysis.operation
    IN  IF operation = "pin_review" THEN _review_pins(lookups, <<>>)
        ELSE IF operation = "batch_review" THEN _batch_review(search_ok, lookups)
        ELSE IF operation = "quality_audit"
        THEN _quality_audit(search_ok, analytics)
        ELSE IF operation = "pattern_analysis"
        THEN QAResult("APPROVE", <<>>, <<>>)
        ELSE QAResult("REQUEST_MORE_INFO", <<>>, <<>>)

NoAnalytics == [closed |-> 0, open |-> 0, zones |-> <<>>]

\* What one run of the QA agent reads from outside: the Classifier's review
\* analysis, and what the gateway answers to the calls that analysis leads to
QAInputs ==
    [kind : {"none", "falsy", "nondict"}, operation : {"pin_review"},
     gateway_ok : {TRUE}, lookups : {<<>>}, analytics : {NoAnalytics}]
    \cup
    [kind : {"dict"}, operation : {"pin_review"},
     gateway_ok : {TRUE}, lookups : LookupLists, analytics : {NoAnalytics}]
    \cup
    [kind : {"dict"}, operation : {"batch_review"},
     gateway_ok : {TRUE}, lookups : LookupLists, analytics : {NoAnalytics}]
    \cup
    [kind : {"dict"}, operation : {"batch_review"},
     gateway_ok : {FALSE}, lookups : {<<>>}, analytics : {NoAnalytics}]
    \cup
    [kind : {"dict"}, operation : {"quality_audit"},
     gateway_ok : {TRUE}, lookups : {<<>>}, analytics : WorkflowAnalytics]
    \cup
    [kind : {"dict"}, operation : {"quality_audit"},
     gateway_ok : {FALSE}, lookups : {<<>>}, analytics : {NoAnalytics}]
    \cup
    [kind : {"dict"}, operation : {"pattern_analysis", "inspection_schedule"},
     gateway_ok : {TRUE}, lookups : {<<>>}, analytics : {NoAnalytics}]

\* "supervisor" for every decision but APPROVE
next_agent_after_review_unless_approved(result) ==
    IF result.decision = "APPROVE" THEN "end" ELSE "supervisor"

\* the next_agent QAReviewerAgent.process returns with a review result
next_agent_after_review(result) ==
    IF result.decision # "ESCALATE" THEN "end" ELSE "supervisor"

QAReviewerAgent_process ==
    /\ pc = "qa_reviewer"
    /\ steps < MaxSteps
    /\ IF messages = <<>>
       THEN NodeReturns([state EXCEPT !.error_state = Some(NO_TASK_MESSAGE),
                                      !.next_agent = "end"],
                        <<>>, ConditionalEdge(AgentEdges,
                            _agent_completion_router(Some(NO_TASK_MESSAGE), "end")))
       ELSE \E review_analysis \in QAInputs :
            IF review_analysis.kind \in {"none", "falsy"}
            THEN NodeReturns([state EXCEPT !.error_state = Some(NO_QA_ANALYSIS),
                                           !.next_agent = "end"],
                             <<>>, ConditionalEdge(AgentEdges,
                                 _agent_completion_router(Some(NO_QA_ANALYSIS), "end")))
            ELSE IF review_analysis.kind = "nondict"
            THEN NodeRaises(<<>>)       \* analysis.get: AttributeError
            ELSE LET done == _execute_review(review_analysis,
                                             review_analysis.gateway_ok,
                                             review_analysis.lookups,
                                             review_analysis.analytics)
                     result == done.result
                     update == [state EXCEPT
                         !.messages = <<"QAReviewer">>,
                         !.results = Put(results, "qa_review", result),
                         !.next_agent = next_agent_after_review(result)]
                 IN  IF done.raised THEN NodeRaises(done.calls)
                     ELSE NodeReturns(update, done.calls,
                              ConditionalEdge(AgentEdges,
                                  _agent_completion_router(update.error_state,
                                                           update.next_agent)))

---------------------------------------------------------------------------
(* Passthrough agents *)

\* error_state cleared on completion
Passthrough_clears_error(node, agent_name, result_key) ==
    /\ pc = node
    /\ steps < MaxSteps
    /\ LET update == [state EXCEPT
                         !.messages = <<agent_name>>,
                         !.results = Put(results, result_key,
                                         [status |-> "completed"]),
                         !.error_state = None,
                         !.next_agent = "end"]
       IN  NodeReturns(update, <<>>,
               ConditionalEdge(AgentEdges,
                   _agent_completion_router(update.error_state,
                                            update.next_agent)))

\* the results dict started afresh
Passthrough_fresh_results(node, agent_name, result_key) ==
    /\ pc = node
    /\ steps < MaxSteps
    /\ LET update == [state EXCEPT
                         !.messages = <<agent_name>>,
                         !.results = Put(EmptyDict, result_key,
                                         [status |-> "completed"]),
                         !.next_agent = "end"]
       IN  NodeReturns(update, <<>>,
               ConditionalEdge(AgentEdges,
                   _agent_completion_router(update.error_state,
                                            update.next_agent)))

\* process of PhotoProcessorAgent, SpatialAnalystAgent and ReporterAgent
Passthrough(node, agent_name, result_key) ==
    /\ pc = node
    /\ steps < MaxSteps
    /\ LET update == [state EXCEPT
                         !.messages = <<agent_name>>,
                         !.results = Put(results, result_key,
                                         [status |-> "completed"]),
                         !.next_agent = "end"]
       IN  NodeReturns(update, <<>>,
               ConditionalEdge(AgentEdges,
                   _agent_completion_router(update.error_state,
                                            update.next_agent)))

SpatialAnalystAgent_process ==
    Passthrough("spatial_analyst", "SpatialAnalyst", "spatial_analysis")

PhotoProcessorAgent_process ==
    Passthrough("photo_processor", "PhotoProcessor", "photo_processing")

ReporterAgent_process ==
    Passthrough("reporter", "Reporter", "reporting")

---------------------------------------------------------------------------
(* Error recovery *)

\* the tag "recoverable" classified as recoverable again
_error_handler_node_retries_tag ==
    /\ pc = "error_handler"
    /\ steps < MaxSteps
    /\ IF error_state = None
       THEN NodeRaises(<<>>)
       ELSE LET error_msg == error_state[1]
                recovery_state ==
                    IF \/ contains(TIMEOUT_KW, lower(error_msg))
                       \/ error_msg = RECOVERABLE
                    THEN RECOVERABLE ELSE FATAL
                update == [state EXCEPT
                              !.messages = <<"error_handler">>,
                              !.error_state = Some(recovery_state),
                              !.next_agent =
                                  IF recovery_state = RECOVERABLE
                                  THEN "supervisor" ELSE "end"]
            IN  NodeReturns(update, <<>>,
                    ConditionalEdge(ErrorEdges,
                        _error_recovery_router(update.error_state)))

_error_handler_node ==
    /\ pc = "error_handler"
    /\ steps < MaxSteps
    /\ IF error_state = None
       THEN NodeRaises(<<>>)     \* None.lower()
       ELSE LET error_msg == error_state[1]
                recovery_state ==
                    IF contains(TIMEOUT_KW, lower(error_msg))
                    THEN RECOVERABLE ELSE FATAL
                update == [state EXCEPT
                              !.messages = <<"error_handler">>,
                              !.error_state = Some(recovery_state),
                              !.next_agent =
                                  IF recovery_state = RECOVERABLE
                                  THEN "supervisor" ELSE "end"]
            IN  NodeReturns(update, <<>>,
                    ConditionalEdge(ErrorEdges,
                        _error_recovery_router(update.error_state)))

---------------------------------------------------------------------------
(* The shared MCPClient *)

\* the tasks the global orchestrator processes concurrently; their handlers
\* call the one MCPClient it constructed
Tasks == {1, 2}

\* the numbers of the server processes: a task starts at most one, since
\* connected stays True once a start succeeded
ServerNumbers == 1..Cardinality(Tasks)

NOT_CONNECTED == "MCP server not connected"
MCP_CALL_FAILED == "MCP call failed"

\* a task that is not inside call_tool
Idle == [at |-> "idle", begun |-> 0, reads |-> 0, returned |-> <<>>]

\* MCPClient.__init__, with no task calling yet
NewClient ==
    /\ connected = FALSE
    /\ process = None
    /\ servers = <<>>
    /\ callers = [t \in Tasks |-> Idle]

\* a server process just started: nothing on its pipes, no coroutine waiting
\* on its stdout
NewServer == [stdin |-> <<>>, stdout |-> <<>>, waiter |-> 0]

\* the task's call ends: it returns what it read, or raises
Ends(caller, outcome) ==
    [caller EXCEPT !.at = "idle", !.reads = 0,
                   !.returned = Append(@, outcome)]

\* call_tool from "if not self.process" on, run without suspension up to the
\* await of readline: the request is written to the stdin of self.process;
\* readline returns at once when a line is buffered, raises RuntimeError when
\* another coroutine is already waiting on the stream, and suspends otherwise.
\* began are the callers and started the server processes as they are when
\* the task reaches the test.
SendRequest(t, began, started) ==
    IF process' = None
    THEN /\ callers' = [began EXCEPT ![t] = Ends(@, NOT_CONNECTED)]
         /\ servers' = started
    ELSE LET p == process'[1]
             written == [started EXCEPT
                            ![p].stdin = Append(@, <<t, began[t].begun>>)]
         IN  IF written[p].stdout # <<>>
             THEN /\ servers' = [written EXCEPT ![p].stdout = Tail(@)]
                  /\ callers' = [began EXCEPT
                                    ![t] = Ends(@, Head(written[p].stdout))]
             ELSE IF written[p].waiter # 0
             THEN /\ servers' = written
                  /\ callers' = [began EXCEPT ![t] = Ends(@, MCP_CALL_FAILED)]
             ELSE /\ servers' = [written EXCEPT ![p].waiter = t]
                  /\ callers' = [began EXCEPT ![t].at = "readline",
                                              ![t].reads = p]

\* a task's handler calls call_tool: unconnected, it awaits connect(), which
\* awaits create_subprocess_exec; connected, it sends its request
call_tool(t) ==
    /\ callers[t].at = "idle"
    /\ callers[t].begun < MaxCalls
    /\ UNCHANGED <<connected, process>>
    /\ IF ~connected
       THEN /\ callers' = [callers EXCEPT ![t].at = "connect",
                                          ![t].begun = @ + 1]
            /\ UNCHANGED servers
       ELSE SendRequest(t, [callers EXCEPT ![t].begun = @ + 1], servers)
    /\ UNCHANGED <<workflow_vars, function_vars>>

\* create_subprocess_exec returns to connect(): with a process, which
\* connect stores in self.process before it sets connected; or with an
\* exception, which connect prints. call_tool then goes on with self.process
connect(t) ==
    /\ callers[t].at = "connect"
    /\ \E spawned \in BOOLEAN :
           IF spawned
           THEN /\ process' = Some(Len(servers) + 1)
                /\ connected' = TRUE
                /\ SendRequest(t, callers, Append(servers, NewServer))
           ELSE /\ UNCHANGED <<connected, process>>
                /\ SendRequest(t, callers, servers)
    /\ UNCHANGED <<workflow_vars, function_vars>>

\* a server process answers the oldest request on its stdin with one line
\* on its stdout; every line carries "id": 1, the model keeps with it the
\* request it answers
server_answers(p) ==
    /\ p \in DOMAIN servers
    /\ servers[p].stdin # <<>>
    /\ servers' = [servers EXCEPT ![p].stdin = Tail(@),
                                  ![p].stdout = Append(@, Head(servers[p].stdin))]
    /\ UNCHANGED <<connected, process, callers>>
    /\ UNCHANGED <<workflow_vars, function_vars>>

\* the coroutine waiting in readline resumes with the first line buffered
\* on the stdout it reads, and call_tool returns that line's result
readline(t) ==
    /\ callers[t].at = "readline"
    /\ servers[callers[t].reads].stdout # <<>>
    /\ servers' = [servers EXCEPT ![callers[t].reads].stdout = Tail(@),
                                  ![callers[t].reads].waiter = 0]
    /\ callers' = [callers EXCEPT
                      ![t] = Ends(@, Head(servers[callers[t].reads].stdout))]
    /\ UNCHANGED <<connected, process>>
    /\ UNCHANGED <<workflow_vars, function_vars>>

---------------------------------------------------------------------------
(* process_task *)

\* no function is being run on its own
NoFunctionCall ==
    /\ arg_task = <<>>
    /\ ret_task_analysis = None
    /\ arg_criteria_checks = None
    /\ ret_decision = None
    /\ arg_review_results = <<>>
    /\ ret_review = None
    /\ call_args = None
    /\ call_ret = None
    /\ NewClient

\* process_task(task, project_id, roof_id): called without the two ids, or
\* with both
ProcessTaskArgs ==
    {<<None, None>>, <<Some("project-1"), Some("roof-1")>>}

process_task_init ==
    /\ NoFunctionCall
    /\ messages = <<"human">>
    /\ next_agent = "supervisor"
    /\ error_state = None
    /\ results = EmptyDict
    /\ current_task = "task"
    /\ \E ids \in ProcessTaskArgs : project_id = ids[1] /\ roof_id = ids[2]
    /\ context = EmptyDict
    /\ pc = "supervisor"
    /\ steps = 0
    /\ calls = <<>>
    /\ final_state = None
    /\ ret = None

\* success read from a key the state does not have
process_task_return_wrong_key ==
    /\ pc = "END"
    /\ ret' = Some([success |-> TRUE,
                    results |-> final_state[1].results,
                    messages |-> final_state[1].messages])
    /\ pc' = "returned"
    /\ UNCHANGED <<messages, next_agent, error_state, results, roof_id,
                   current_task, project_id, context,
                   steps, calls, final_state, function_vars,
                   client_vars>>

process_task_return ==
    /\ pc = "END"
    /\ ret' = Some([success |-> final_state[1].error_state = None,
                    results |-> final_state[1].results,
                    messages |-> final_state[1].messages])
    /\ pc' = "returned"
    /\ UNCHANGED <<messages, next_agent, error_state, results, roof_id,
                   current_task, project_id, context,
                   steps, calls, final_state, function_vars,
                   client_vars>>

Init == process_task_init

Next ==
    \/ _supervisor_node
    \/ PinOpsAgent_process
    \/ QAReviewerAgent_process
    \/ SpatialAnalystAgent_process
    \/ PhotoProcessorAgent_process
    \/ ReporterAgent_process
    \/ _error_handler_node
    \/ process_task_return

Spec == Init /\ [][Next]_vars

---------------------------------------------------------------------------
(* Error recovery on its own: the workflow as a failed handler hands it to *)
(* the error handler, for a range of error_state detail texts              *)

GATEWAY_TIMEOUT ==
    <<"g","a","t","e","w","a","y"," ","t","i","m","e","o","u","t"," ","a","f","t","e","r"," ","3","0","s">>
PERMISSION_DENIED ==
    <<"p","e","r","m","i","s","s","i","o","n"," ","d","e","n","i","e","d">>
UPPER_TIMEOUT ==
    <<"R","e","q","u","e","s","t"," ","T","I","M","E","O","U","T">>
MIXED_TIMEOUT == <<"T","i","m","e","O","u","t">>
TIME_OUT == <<"t","i","m","e"," ","o","u","t">>
TIMEOU == <<"t","i","m","e","o","u">>

\* the detail texts with "timeout" in them, in any case
TimeoutTexts == {GATEWAY_TIMEOUT, UPPER_TIMEOUT, MIXED_TIMEOUT}

\* the detail texts without
OtherTexts ==
    {PERMISSION_DENIED, TIME_OUT, TIMEOU, <<>>, RECOVERABLE, FATAL,
     NO_TASK_MESSAGE, NO_PIN_ANALYSIS, NO_QA_ANALYSIS}

DetailTexts == TimeoutTexts \cup OtherTexts

RecoveryInit ==
    /\ NoFunctionCall
    /\ messages = <<"human", "supervisor">>
    /\ next_agent = "end"
    /\ error_state \in {Some(text) : text \in DetailTexts}
    /\ results = EmptyDict
    /\ current_task = "task"
    /\ \E ids \in ProcessTaskArgs : project_id = ids[1] /\ roof_id = ids[2]
    /\ context = EmptyDict
    /\ pc = "error_handler"
    /\ steps = 2
    /\ calls = <<>>
    /\ final_state = Some([error_state |-> error_state, results |-> results,
                           messages |-> messages])
    /\ ret = None

SpecRecovery == RecoveryInit /\ [][Next]_vars

---------------------------------------------------------------------------
(* Functions run on their own: one call, its argument drawn in the initial *)
(* state and its return value kept                                         *)

\* no workflow run is going on; pc names the function being called
NoWorkflowRun(fn) ==
    /\ pc = fn
    /\ messages = <<>>
    /\ next_agent = "end"
    /\ error_state = None
    /\ results = EmptyDict
    /\ roof_id = None
    /\ current_task = ""
    /\ project_id = None
    /\ context = EmptyDict
    /\ steps = 0
    /\ calls = <<>>
    /\ final_state = None
    /\ ret = None

\* a Classifier reply json.loads rejects
UnparsableResponse ==
    [kind |-> "unparsable", is_dict |-> FALSE, keys |-> {},
     agent |-> "end", context_is_mapping |-> TRUE]

FallbackInit ==
    /\ NoWorkflowRun("_analyze_task")
    /\ arg_task \in TaskTexts
    /\ ret_task_analysis = None
    /\ arg_criteria_checks = None
    /\ ret_decision = None
    /\ arg_review_results = <<>>
    /\ ret_review = None
    /\ call_args = None
    /\ call_ret = None
    /\ NewClient

\* _analyze_task(task) returns
analyze_task_returns ==
    /\ pc = "_analyze_task"
    /\ ret_task_analysis' = Some(_analyze_task(UnparsableResponse, arg_task))
    /\ pc' = "done"
    /\ UNCHANGED <<messages, next_agent, error_state, results, roof_id,
                   current_task, project_id, context,
                   steps, calls, final_state, ret, arg_task,
                   arg_criteria_checks, ret_decision, arg_review_results,
                   ret_review, call_args, call_ret,
                   client_vars>>

NextFallback == analyze_task_returns

SpecFallback == FallbackInit /\ [][NextFallback]_vars

\* a quality check: True, False, or None (unknown, or the key left out)
TriState == {None, Some(TRUE), Some(FALSE)}

\* the criteria_checks _make_qa_decision can be given
CriteriaChecks ==
    [has_closing_photo : BOOLEAN, status_ready_for_review : BOOLEAN,
     all_children_closed : BOOLEAN, has_documentation : TriState,
     within_sla : TriState, resolution_appropriate : TriState]

DecisionInit ==
    /\ NoWorkflowRun("_make_qa_decision")
    /\ arg_task = <<>>
    /\ ret_task_analysis = None
    /\ arg_criteria_checks \in {Some(checks) : checks \in CriteriaChecks}
    /\ ret_decision = None
    /\ arg_review_results = <<>>
    /\ ret_review = None
    /\ call_args = None
    /\ call_ret = None
    /\ NewClient

\* _make_qa_decision(criteria_checks) returns
make_qa_decision_returns ==
    /\ pc = "_make_qa_decision"
    /\ ret_decision' = Some(_make_qa_decision(arg_criteria_checks[1]))
    /\ pc' = "done"
    /\ UNCHANGED <<messages, next_agent, error_state, results, roof_id,
                   current_task, project_id, context,
                   steps, calls, final_state, ret, arg_task,
                   ret_task_analysis, arg_criteria_checks,
                   arg_review_results, ret_review, call_args, call_ret,
                   client_vars>>

NextDecision == make_qa_decision_returns

SpecDecision == DecisionInit /\ [][NextDecision]_vars

\* single-pin results _review_pins aggregates
MaxResults == 3

\* a single-pin result, as far as the aggregation reads it
IndividualResults ==
    [decision : Decisions, confidence : {0, 90}, criteria_checks : {None}]

AggregateInit ==
    /\ NoWorkflowRun("_review_pins")
    /\ arg_task = <<>>
    /\ ret_task_analysis = None
    /\ arg_criteria_checks = None
    /\ ret_decision = None
    /\ arg_review_results \in
           UNION {[1..n -> IndividualResults] : n \in 0..MaxResults}
    /\ ret_review = None
    /\ call_args = None
    /\ call_ret = None
    /\ NewClient

\* _review_pins returns, its loop having collected review_results
review_pins_returns ==
    /\ pc = "_review_pins"
    /\ ret_review' = Some(IF arg_review_results = <<>> THEN NoPinIds
                          ELSE ReviewOf(arg_review_results))
    /\ pc' = "done"
    /\ UNCHANGED <<messages, next_agent, error_state, results, roof_id,
                   current_task, project_id, context,
                   steps, calls, final_state, ret, arg_task,
                   ret_task_analysis, arg_criteria_checks, ret_decision,
                   arg_review_results, call_args, call_ret,
                   client_vars>>

NextAggregate == review_pins_returns

SpecAggregate == AggregateInit /\ [][NextAggregate]_vars

---------------------------------------------------------------------------
(* Properties *)

GraphNodes == Handlers \cup {"supervisor", "error_handler"}

Last(seq) == seq[Len(seq)]

\* this step is a pin_ops step that ran an operation and returned its result
PinOpsCompletes ==
    pc = "pin_ops" /\ pc' # "raised" /\ messages' = Append(messages, "PinOps")

\* this step is a qa_reviewer step that ran a review and returned its result
QACompletes ==
    pc = "qa_reviewer" /\ pc' # "raised"
    /\ messages' = Append(messages, "QAReviewer")

\* what C1 says of one step
C1_Step ==
    (pc \in Handlers /\ pc' # "raised") =>
        pc' = (IF error_state' # None THEN "error_handler"
               ELSE IF next_agent' = "end" THEN "END"
               ELSE "supervisor")

\* C1: after a handler step the next step is Error-Recovery if error_state
\* is set, else termination if next_agent is "end", else the Supervisor;
\* nothing else follows a handler step.
C1_CompletionRouting == [][C1_Step]_vars

\* a handler step has been followed by the Supervisor
C1_Witness ==
    pc = "supervisor" /\ Last(messages) = "PinOps" /\ error_state = None

\* C2: next_agent is always one of pin_ops, qa_reviewer, spatial_analyst,
\* photo_processor, reporter, error, end.
C2_NextAgentInRoutingSet == next_agent \in Handlers \cup {"error", "end"}

\* C3: once error_state is fatal no handler and no Supervisor step runs:
\* the run has ended, and it ended from Error-Recovery.
C3_FatalEndsRun ==
    error_state = Some(FATAL) =>
        pc \in {"END", "returned"} /\ Last(messages) = "error_handler"

\* a run has returned with a fatal error_state
C3_Witness == error_state = Some(FATAL) /\ pc = "returned"

\* C4: a run that has executed the maximum number of steps has ended: no
\* node is left to run.
C4_EndsWithinStepBound == steps = MaxSteps => pc \notin GraphNodes

\* what C5 says of one step
C5_Step == pc \in Handlers => pc' # "supervisor"

\* C5 as stated: no handler step is followed directly by a Supervisor step.
C5_LoopBackNeverTaken == [][C5_Step]_vars

\* this step is a pin_ops step whose result is a failure
FailedPinOp ==
    /\ PinOpsCompletes
    /\ ~results'["pin_ops"].success
    /\ next_agent' = "error"

\* this step is a qa_reviewer step whose decision is ESCALATE
Escalated ==
    /\ QACompletes
    /\ results'["qa_review"].decision = "ESCALATE"
    /\ next_agent' = "supervisor"

\* what the amended C5 says of one step
C5_AmendedStep ==
    (pc \in Handlers /\ pc' # "raised") =>
        /\ (next_agent' = "end" \/ error_state' # None
                \/ FailedPinOp \/ Escalated)
        /\ (pc' = "supervisor" <=>
                (error_state' = None /\ (FailedPinOp \/ Escalated)))

\* C5 as amended: a handler step that completes leaves next_agent = "end" or
\* sets error_state, except a pin_ops step whose result is a failure (it
\* leaves next_agent = "error") and a qa_reviewer step whose decision is
\* ESCALATE (it leaves next_agent = "supervisor"); these two, and only
\* these, are followed directly by a Supervisor step.
C5_LoopBackOnlyAfterFailureOrEscalate == [][C5_AmendedStep]_vars

\* a QA review that escalated has been followed by the Supervisor
C5_Witness ==
    /\ pc = "supervisor"
    /\ Last(messages) = "QAReviewer"
    /\ results["qa_review"].decision = "ESCALATE"

\* what C6 says of one step
C6_Step ==
    (PinOpsCompletes
     /\ results'["pin_ops"].error \in {"validation", "unknown_operation"}) =>
        /\ ~results'["pin_ops"].success
        /\ error_state' = None
        /\ pc' = "END"

\* C6: a pin_ops step whose result is a validation failure or an unknown
\* operation leaves error_state unset and the workflow ends.
C6_StructuredFailureEndsRun == [][C6_Step]_vars

\* what C7 says of one step
C7_Step ==
    (PinOpsCompletes /\ results'["pin_ops"].error = "tool") =>
        /\ error_state' # None
        /\ pc' = "error_handler"
        /\ Len(SelectSeq(calls', LAMBDA c :
               c.tool = results'["pin_ops"].action)) = 1

\* C7: a pin_ops step whose gateway call failed sets error_state, makes the
\* call once, and is followed by Error-Recovery.
C7_ToolFailureGoesToRecovery == [][C7_Step]_vars

\* C8: no exception leaves process_task.
C8_NoUnhandledFault == pc # "raised"

\* C9: process_task returns success = true exactly when the final
\* error_state is None.
C9_SuccessIffNoError ==
    ret # None => (ret[1].success <=> error_state = None)

\* process_task has returned a failure
C9_Witness == ret # None /\ ~ret[1].success /\ error_state # None

\* what C10 says of one step
C10_Step ==
    (pc = "error_handler" /\ error_state # None) =>
        /\ messages' = Append(messages, "error_handler")
        /\ IF error_state[1] \in TimeoutTexts
           THEN /\ error_state' = Some(RECOVERABLE)
                /\ next_agent' = "supervisor"
                /\ pc' = "supervisor"
           ELSE /\ error_state' = Some(FATAL)
                /\ next_agent' = "end"
                /\ pc' = "END"

\* C10: an Error-Recovery step on a detail text sets error_state to
\* recoverable exactly when the text has "timeout" in it in any case, and to
\* fatal otherwise; recoverable sets next_agent = supervisor and the
\* Supervisor runs next, fatal sets next_agent = end and the run ends; the
\* step adds exactly one message.
C10_RecoveryClassification == [][C10_Step]_vars

\* Error-Recovery classified a text as recoverable and the Supervisor is next
C10_Witness ==
    /\ pc = "supervisor"
    /\ Last(messages) = "error_handler"
    /\ error_state = Some(RECOVERABLE)


---------------------------------------------------------------------------
(* Keyword fallback *)

\* the rule (1..5, 0 for none) each word of the vocabulary falls under
WordRules ==
    {<<S_pin, 1>>, <<S_review, 2>>, <<S_approve, 2>>, <<S_spatial, 3>>,
     <<S_proximity, 3>>, <<S_picture, 4>>, <<S_export, 5>>, <<S_summary, 5>>,
     <<T_please, 0>>, <<T_and, 0>>, <<T_42, 0>>, <<T_roof, 0>>,
     <<T_creat, 0>>, <<T_Create, 1>>, <<T_ISSUE, 1>>, <<T_defects, 1>>,
     <<T_spinning, 1>>, <<T_Closed, 2>>, <<T_inspector, 2>>,
     <<T_NEARBY, 3>>, <<T_Region, 3>>, <<T_photos, 4>>, <<T_Image, 4>>,
     <<T_UPLOAD, 4>>, <<T_Reporter, 5>>, <<T_Analytics, 5>>}

RuleOfWord(word) == (CHOOSE p \in WordRules : p[1] = word)[2]

RuleTargets ==
    <<"pin_ops", "qa_reviewer", "spatial_analyst", "photo_processor",
      "reporter">>

\* the words of a text, split at its spaces
RECURSIVE Split(_, _)
Split(text, word) ==
    IF text = <<>> THEN <<word>>
    ELSE IF text[1] = " " THEN <<word>> \o Split(Tail(text), <<>>)
    ELSE Split(Tail(text), Append(word, text[1]))

\* the first rule, in the fixed order, that a word of the text falls under
FirstRule(text) ==
    LET words == Split(text, <<>>)
        rules == {RuleOfWord(words[i]) : i \in 1..Len(words)} \ {0}
    IN  IF text = <<>> \/ rules = {} THEN 0
        ELSE CHOOSE r \in rules : \A q \in rules : r <= q

\* C11: with an unparsable Classifier output the classification is the
\* target of the first rule, in the order pin_ops, qa_reviewer,
\* spatial_analyst, photo_processor, reporter, one of whose keywords is a
\* substring of the lower-cased task text, and pin_ops if no rule matches
C11_FallbackFirstMatchingRule ==
    ret_task_analysis # None =>
        ret_task_analysis[1].agent =
            IF FirstRule(arg_task) = 0 THEN "pin_ops"
            ELSE RuleTargets[FirstRule(arg_task)]

C11_Witness ==
    /\ ret_task_analysis # None
    /\ arg_task = Join(<<S_summary, T_Closed>>)
    /\ ret_task_analysis[1].agent = "qa_reviewer"

\* C12 as claimed: with an unparsable Classifier output the text "please
\* review and approve pin 42" is classified qa_reviewer
C12_ReviewTextRoutedToQA ==
    (arg_task = PLEASE_REVIEW_AND_APPROVE_PIN_42 /\ ret_task_analysis # None)
        => ret_task_analysis[1].agent = "qa_reviewer"

\* C12 as amended: that text is classified pin_ops, because "pin", a
\* keyword of the first rule, is a substring of it
C12_ReviewTextRoutedToPinOps ==
    (arg_task = PLEASE_REVIEW_AND_APPROVE_PIN_42 /\ ret_task_analysis # None)
        => /\ ret_task_analysis[1].agent = "pin_ops"
           /\ contains(S_pin, lower(arg_task))

C12_Witness ==
    /\ arg_task = PLEASE_REVIEW_AND_APPROVE_PIN_42
    /\ ret_task_analysis # None
    /\ ret_task_analysis[1].agent = "pin_ops"

\* C13 as claimed: a Supervisor step that classifies a task sets a target
\* handler that is one of the five handler names, whatever the Classifier
\* answered
C13_Step ==
    (pc = "supervisor" /\ messages # <<>> /\ pc' # "raised")
        => next_agent' \in Handlers

C13_SupervisorTargetIsHandler == [][C13_Step]_vars

---------------------------------------------------------------------------
(* Single-pin decision procedure *)

CriticalChecks ==
    {"has_closing_photo", "status_ready_for_review", "all_children_closed"}

FailedCritical(checks) == {check \in CriticalChecks : ~checks[check]}

\* the elements of a sequence
Range(seq) == {seq[i] : i \in 1..Len(seq)}

\* C14: if a critical check is false the decision is REJECT with confidence
\* 0.95 and the rationale names exactly the failed critical checks, whatever
\* the three quality checks are
C14_CriticalFailureRejects ==
    (ret_decision # None /\ FailedCritical(arg_criteria_checks[1]) # {}) =>
        /\ ret_decision[1].decision = "REJECT"
        /\ ret_decision[1].confidence = 95
        /\ Range(ret_decision[1].critical_failures)
               = FailedCritical(arg_criteria_checks[1])
        /\ Len(ret_decision[1].critical_failures)
               = Cardinality(FailedCritical(arg_criteria_checks[1]))

C14_Witness ==
    /\ ret_decision # None
    /\ arg_criteria_checks[1].has_closing_photo = FALSE
    /\ arg_criteria_checks[1].status_ready_for_review
    /\ arg_criteria_checks[1].all_children_closed
    /\ arg_criteria_checks[1].has_documentation = Some(TRUE)
    /\ arg_criteria_checks[1].within_sla = Some(TRUE)
    /\ arg_criteria_checks[1].resolution_appropriate = Some(TRUE)
    /\ ret_decision[1].decision = "REJECT"
    /\ ret_decision[1].critical_failures = <<"has_closing_photo">>

QualityChecks == {"has_documentation", "within_sla", "resolution_appropriate"}

\* twice the quality score: 2 for each check that is true, 1 for each unknown
TwiceQualityScore(checks) ==
    2 * Cardinality({check \in QualityChecks : checks[check] = Some(TRUE)})
    + Cardinality({check \in QualityChecks : checks[check] = None})

\* C15: with the three critical checks true, the decision is APPROVE (0.9)
\* for a quality score of 2.5 or 3, REQUEST_MORE_INFO (0.7) for 2, REJECT
\* (0.8) for 1.5 or less, for every combination of the three quality checks
C15_QualityScoreDecides ==
    (ret_decision # None /\ FailedCritical(arg_criteria_checks[1]) = {}) =>
        LET score2 == TwiceQualityScore(arg_criteria_checks[1])
        IN  /\ score2 >= 5 =>
                /\ ret_decision[1].decision = "APPROVE"
                /\ ret_decision[1].confidence = 90
            /\ score2 = 4 =>
                /\ ret_decision[1].decision = "REQUEST_MORE_INFO"
                /\ ret_decision[1].confidence = 70
            /\ score2 <= 3 =>
                /\ ret_decision[1].decision = "REJECT"
                /\ ret_decision[1].confidence = 80

C15_Witness ==
    /\ ret_decision # None
    /\ FailedCritical(arg_criteria_checks[1]) = {}
    /\ arg_criteria_checks[1].has_documentation = Some(TRUE)
    /\ arg_criteria_checks[1].within_sla = None
    /\ arg_criteria_checks[1].resolution_appropriate = Some(TRUE)
    /\ ret_decision[1].decision = "APPROVE"
    /\ ret_decision[1].confidence = 90

---------------------------------------------------------------------------
(* Single-pin review *)

\* the search_pins calls by pin id among the gateway calls of a step
Lookups(made_calls) ==
    SelectSeq(made_calls,
              LAMBDA c : c.tool = "search_pins" /\ c.arguments = {"pin_ids"})

\* C16 as claimed: for every pin a QA step fetched, the criteria computation
\* completes and gives within_sla unknown if opened_at or due_date is
\* missing, and a boolean otherwise
C16_Step ==
    (pc = "qa_reviewer" /\ Lookups(calls') # <<>>) =>
        /\ pc' # "raised"
        /\ \A i \in 1..Len(Lookups(calls')) :
             Lookups(calls')[i].success =>
                LET pin_data == Lookups(calls')[i].data[1]
                    checks ==
                        results'["qa_review"].individual_results[i]
                            .criteria_checks
                IN  /\ checks # None
                    /\ IF pin_data.opened_at /\ pin_data.due_date
                       THEN checks[1].within_sla \in {Some(TRUE), Some(FALSE)}
                       ELSE checks[1].within_sla = None

C16_WithinSlaComputed == [][C16_Step]_vars

\* C17: when the search_pins call for a pin fails, the review result for
\* that pin is REQUEST_MORE_INFO with confidence 0 and without criteria, and
\* the step leaves error_state as it was
C17_Step ==
    (pc = "qa_reviewer" /\ pc' # "raised" /\ Lookups(calls') # <<>>) =>
        LET individual == results'["qa_review"].individual_results
        IN  /\ Len(individual) = Len(Lookups(calls'))
            /\ \A i \in 1..Len(individual) :
                 ~Lookups(calls')[i].success =>
                    /\ individual[i].decision = "REQUEST_MORE_INFO"
                    /\ individual[i].confidence = 0
                    /\ individual[i].criteria_checks = None
                    /\ error_state' = error_state
                    /\ error_state' = None

C17_FailedLookupAsksForMoreInfo == [][C17_Step]_vars

C17_Witness ==
    /\ pc = "END"
    /\ Last(messages) = "QAReviewer"
    /\ Len(Lookups(calls)) = 2
    /\ Lookups(calls)[1].success
    /\ ~Lookups(calls)[2].success
    /\ results["qa_review"].individual_results[2].decision
           = "REQUEST_MORE_INFO"
    /\ results["qa_review"].individual_results[2].confidence = 0
    /\ error_state = None

---------------------------------------------------------------------------
(* Aggregate decision of a pin review *)

DecisionsOf(list) == {list[i].decision : i \in 1..Len(list)}

\* the next steps that go with each aggregate decision
ExpectedNextSteps ==
    [APPROVE |-> <<"Update pin statuses to Closed",
                   "Notify stakeholders of completions",
                   "Update project metrics">>,
     REJECT |-> <<"Notify field teams of rejections",
                  "Provide specific remediation guidance",
                  "Schedule re-inspection">>,
     ESCALATE |-> <<"Prepare escalation summary",
                    "Schedule supervisor review",
                    "Document complex issues">>,
     REQUEST_MORE_INFO |-> <<>>]

\* C18: for a non-empty list of single-pin results the aggregate decision
\* is ESCALATE if any is ESCALATE, otherwise APPROVE if all are APPROVE,
\* otherwise REJECT (so REJECT with a REQUEST_MORE_INFO and no ESCALATE),
\* and next_steps is the list that goes with the aggregate decision
C18_AggregateDecision ==
    (ret_review # None /\ arg_review_results # <<>>) =>
        LET given == DecisionsOf(arg_review_results)
            aggregate == ret_review[1].decision
        IN  /\ "ESCALATE" \in given => aggregate = "ESCALATE"
            /\ given = {"APPROVE"} => aggregate = "APPROVE"
            /\ ("ESCALATE" \notin given /\ given # {"APPROVE"})
                   => aggregate = "REJECT"
            /\ ("REQUEST_MORE_INFO" \in given /\ "ESCALATE" \notin given)
                   => aggregate = "REJECT"
            /\ ret_review[1].next_steps = Some(ExpectedNextSteps[aggregate])

C18_Witness ==
    /\ ret_review # None
    /\ Len(arg_review_results) = 3
    /\ arg_review_results[1].decision = "APPROVE"
    /\ arg_review_results[2].decision = "REQUEST_MORE_INFO"
    /\ arg_review_results[3].decision = "APPROVE"
    /\ ret_review[1].decision = "REJECT"

\* the permutations of 1..n
IndexPermutations(n) ==
    {f \in [1..n -> 1..n] : \A i, j \in 1..n : f[i] = f[j] => i = j}

Permuted(list, f) == [i \in 1..Len(list) |-> list[f[i]]]

\* C19: every permutation of the same single-pin results gives the same
\* aggregate decision and the same summary counts
C19_OrderIndependent ==
    (ret_review # None /\ arg_review_results # <<>>) =>
        \A f \in IndexPermutations(Len(arg_review_results)) :
            LET other == ReviewOf(Permuted(arg_review_results, f))
            IN  /\ other.decision = ret_review[1].decision
                /\ other.summary = ret_review[1].summary

C19_Witness ==
    /\ ret_review # None
    /\ Len(arg_review_results) = 3
    /\ arg_review_results[1].decision = "APPROVE"
    /\ arg_review_results[2].decision = "ESCALATE"
    /\ arg_review_results[3].decision = "REJECT"
    /\ ret_review[1].decision = "ESCALATE"
    /\ ret_review[1].summary[1].approved = 1
    /\ ret_review[1].summary[1].rejected = 1
    /\ ret_review[1].summary[1].escalated = 1
    /\ ret_review[1].summary[1].total_reviewed = 3
    /\ ret_review[1].summary[1].approval_rate = <<1, 3>>

---------------------------------------------------------------------------
(* Routing after a QA review *)

\* C20: after a QA step that completed a review, next_agent is "supervisor"
\* if and only if the decision is ESCALATE, and "end" for APPROVE, REJECT
\* and REQUEST_MORE_INFO
C20_Step ==
    QACompletes =>
        LET reviewed == results'["qa_review"].decision
        IN  /\ reviewed \in Decisions
            /\ next_agent' = "supervisor" <=> reviewed = "ESCALATE"
            /\ reviewed \in {"APPROVE", "REJECT", "REQUEST_MORE_INFO"}
                   => next_agent' = "end"

C20_EscalateGoesToSupervisor == [][C20_Step]_vars

C20_Witness ==
    /\ Last(messages) = "QAReviewer"
    /\ results["qa_review"].decision = "ESCALATE"
    /\ next_agent = "supervisor"
    /\ Len(calls) = 1
    /\ calls[1].tool = "get_pin_analytics"
    /\ calls[1].success

\* a QA review that ended the run
C20_WitnessEnd ==
    /\ Last(messages) = "QAReviewer"
    /\ results["qa_review"].decision = "REJECT"
    /\ next_agent = "end"
    /\ pc = "END"

----------------------------------------------------------------------------
\* Calls of one function on its own: call_args holds the arguments, call_ret
\* what it returned

\* before the call of fn with one of the argument values
CallInit(fn, argument_values) ==
    /\ NoWorkflowRun(fn)
    /\ arg_task = <<>>
    /\ ret_task_analysis = None
    /\ arg_criteria_checks = None
    /\ ret_decision = None
    /\ arg_review_results = <<>>
    /\ ret_review = None
    /\ call_args \in {Some(a) : a \in argument_values}
    /\ call_ret = None
    /\ NewClient

\* fn returns value
CallReturns(fn, value) ==
    /\ pc = fn
    /\ call_ret' = Some(value)
    /\ pc' = "done"
    /\ UNCHANGED <<messages, next_agent, error_state, results, roof_id,
                   current_task, project_id, context,
                   steps, calls, final_state, ret, arg_task,
                   ret_task_analysis, arg_criteria_checks, ret_decision,
                   arg_review_results, ret_review, call_args,
                   client_vars>>

\* what get_pin_analytics can answer to a quality audit
AuditInputs ==
    [analytics_ok : {TRUE}, analytics : Analytics]
    \cup [analytics_ok : {FALSE}, analytics : {NoAnalytics}]

AuditInit == CallInit("_quality_audit", AuditInputs)

\* _quality_audit(state, analysis) returns its result dict: the decision and,
\* when the analytics were fetched, the quality_indicators with their
\* recommendations
quality_audit_returns ==
    /\ pc = "_quality_audit"
    /\ LET input == call_args[1]
           audit == _quality_audit(input.analytics_ok, input.analytics)
       IN  CallReturns("_quality_audit",
               [decision |-> audit.result.decision,
                quality_indicators |->
                    IF input.analytics_ok
                    THEN Some(_analyze_quality_metrics(input.analytics))
                    ELSE None,
                calls |-> audit.calls])

NextAudit == quality_audit_returns

SpecAudit == AuditInit /\ [][NextAudit]_vars

----------------------------------------------------------------------------
\* Quality audit

\* the analytics of a finished audit that fetched them
AuditDone == pc = "done" /\ call_args[1].analytics_ok

AuditTotal == call_args[1].analytics.closed + call_args[1].analytics.open

AuditIndicators == call_ret[1].quality_indicators[1]

LowClosureRate == "Low closure rate - review workflow efficiency"

\* C21 as claimed: closure_rate is closed/total when total > 0 and 0 when
\* total = 0; in both cases it is one of the averaged scores, and the low
\* closure rate recommendation is made exactly when it is below 0.7
C21_ClosureRateZeroWithoutPins ==
    AuditDone =>
        LET closure_rate == AuditIndicators.closure_rate
            expected == IF AuditTotal > 0
                        THEN <<call_args[1].analytics.closed, AuditTotal>>
                        ELSE <<0, 1>>
        IN  /\ closure_rate # None
            /\ SameFrac(closure_rate[1], expected)
            /\ Len(AuditIndicators.scores) >= 1
            /\ AuditIndicators.scores[1] = closure_rate[1]
            /\ (LowClosureRate \in Range(AuditIndicators.recommendations))
                   <=> LessFrac(expected, <<7, 10>>)

\* C21, amended: with total > 0, closure_rate is closed/total, it is the
\* first of the averaged scores and the low closure rate recommendation is
\* made exactly when it is below 0.7; with total = 0 there is no closure_rate
\* indicator: the scores are averaged without it and the recommendation is
\* not made
C21_ClosureRateOnlyWithPins ==
    AuditDone =>
        LET closure_rate == AuditIndicators.closure_rate
            others == <<AuditIndicators.response_time_score>>
                      \o AuditIndicators.concentration_ratio
        IN  IF AuditTotal > 0
            THEN /\ closure_rate # None
                 /\ SameFrac(closure_rate[1],
                             <<call_args[1].analytics.closed, AuditTotal>>)
                 /\ AuditIndicators.scores = closure_rate \o others
                 /\ SameFrac(AuditIndicators.overall_score,
                        <<SumFrac(closure_rate \o others)[1],
                          SumFrac(closure_rate \o others)[2]
                              * (1 + Len(others))>>)
                 /\ (LowClosureRate \in Range(AuditIndicators.recommendations))
                        <=> LessFrac(closure_rate[1], <<7, 10>>)
            ELSE /\ closure_rate = None
                 /\ AuditIndicators.scores = others
                 /\ SameFrac(AuditIndicators.overall_score,
                        <<SumFrac(others)[1],
                          SumFrac(others)[2] * Len(others)>>)
                 /\ LowClosureRate \notin Range(AuditIndicators.recommendations)

\* an audit of analytics with an empty status breakdown and two zones
C21_Witness ==
    /\ AuditDone
    /\ AuditTotal = 0
    /\ Len(call_args[1].analytics.zones) = 2
    /\ Len(AuditIndicators.scores) = 2

\* closure_rate and concentration_ratio as the claim C22 reads them: 0 when
\* there is nothing to divide by
ClaimedIndicators ==
    LET analytics == call_args[1].analytics
        total_pins == Sum(analytics.zones)
    IN  << IF AuditTotal > 0 THEN <<analytics.closed, AuditTotal>>
           ELSE <<0, 1>>,
           IF Len(analytics.zones) > 0 /\ total_pins > 0
           THEN <<Max(analytics.zones), total_pins>>
           ELSE <<0, 1>> >>

PresentIndicators ==
    LET analytics == call_args[1].analytics
        total_pins == Sum(analytics.zones)
    IN  (IF AuditTotal > 0 THEN << <<analytics.closed, AuditTotal>> >>
         ELSE <<>>)
        \o << <<8, 10>> >>
        \o (IF Len(analytics.zones) = 0 THEN <<>>
            ELSE IF total_pins > 0
            THEN << <<Max(analytics.zones), total_pins>> >>
            ELSE << <<0, 1>> >>)

\* closure_rate 0.6 with concentration_ratio 1.0, or the reverse: the double
\* (0.6 + 0.8 + 1.0) / 3 is 0.7999999999999999
SixTenthsAndOne ==
    /\ Len(PresentIndicators) = 3
    /\ \/ /\ SameFrac(PresentIndicators[1], <<3, 5>>)
          /\ SameFrac(PresentIndicators[3], <<1, 1>>)
       \/ /\ SameFrac(PresentIndicators[1], <<1, 1>>)
          /\ SameFrac(PresentIndicators[3], <<3, 5>>)

----------------------------------------------------------------------------
\* _create_pin on its own

\* an operation analysis that leads to _create_pin, and what the gateway
\* answers to its calls
CreatePinInputs ==
    [operation : [kind : {"dict"}, operation : {"create_pin"},
                  params_is_mapping : {TRUE}, parameters : PinParams],
     nearby : {None, Some(<<>>), Some(<<"Open", "Closed">>)},
     tool_ok : BOOLEAN]

\* the state _create_pin is given: that of a run whose only message is the
\* task, with or without a roof_id
CreatePinInit ==
    /\ pc = "_create_pin"
    /\ messages = <<"human">>
    /\ next_agent = "pin_ops"
    /\ error_state = None
    /\ results = EmptyDict
    /\ current_task = "task"
    /\ \E ids \in ProcessTaskArgs : project_id = ids[1] /\ roof_id = ids[2]
    /\ context = EmptyDict
    /\ steps = 0
    /\ calls = <<>>
    /\ final_state = None
    /\ ret = None
    /\ arg_task = <<>>
    /\ ret_task_analysis = None
    /\ arg_criteria_checks = None
    /\ ret_decision = None
    /\ arg_review_results = <<>>
    /\ ret_review = None
    /\ call_args \in {Some(input) : input \in CreatePinInputs}
    /\ call_ret = None
    /\ NewClient

\* _create_pin(params, state) returns or raises
create_pin_returns ==
    /\ pc = "_create_pin"
    /\ CallReturns("_create_pin",
           _create_pin(call_args[1].operation, call_args[1].nearby,
                       call_args[1].tool_ok))

NextCreatePin == create_pin_returns

SpecCreatePin == CreatePinInit /\ [][NextCreatePin]_vars

----------------------------------------------------------------------------
\* create_pin

RequiredFields == {"roof_id", "x", "y"}

\* the operation parameters give the field a non-null value
InParameters(field) ==
    LET params == call_args[1].operation.parameters
    IN  field \in DOMAIN params /\ params[field] # None

\* the workflow state gives the field a non-null value
InState(field) == field = "roof_id" /\ roof_id # None

\* the field is null or absent in both the parameters and the state
MissingField(field) == ~InParameters(field) /\ ~InState(field)

CreatePinDone == pc = "done" /\ call_args[1].operation.operation = "create_pin"

\* C23: create_pin with a required field null or absent in parameters and
\* state makes no gateway call and returns success = false with a validation
\* error that names every such field
C23_MissingFieldNoGatewayCall ==
    (CreatePinDone /\ \E field \in RequiredFields : MissingField(field)) =>
        /\ ~call_ret[1].raised
        /\ call_ret[1].calls = <<>>
        /\ ~call_ret[1].result.success
        /\ call_ret[1].result.error = "validation"
        /\ \A field \in RequiredFields :
               MissingField(field) => field \in Range(call_ret[1].result.missing)

\* create_pin without x and y
C23_Witness ==
    /\ CreatePinDone
    /\ MissingField("x") /\ MissingField("y") /\ ~MissingField("roof_id")
    /\ call_ret[1].result.missing = <<"x", "y">>
    /\ call_ret[1].calls = <<>>

\* C24 as claimed: create_pin fails validation only if a required field is
\* null or absent in both the parameters and the state
C24_ParametersNotMaskedByState ==
    (CreatePinDone /\ ~call_ret[1].raised
     /\ call_ret[1].result.error = "validation") =>
        \E field \in RequiredFields : MissingField(field)

\* create_pin's validation passes: every required field of
\* {**params, **state} is there and not None
ValidationPassed ==
    LET merged == Merge(call_args[1].operation.parameters, [roof_id |-> roof_id])
    IN  \A field \in RequiredFields :
            field \in DOMAIN merged /\ merged[field] # None

\* C25 as claimed: once validation has passed, the gateway calls are
\* find_nearby_pins (with a radius) and then create_pin, each once, whatever
\* the pre-check returns; after a failed pre-check the nearby count is 0
C25_PreCheckThenCreate ==
    (CreatePinDone /\ ValidationPassed) =>
        /\ ~call_ret[1].raised
        /\ Len(call_ret[1].calls) = 2
        /\ call_ret[1].calls[1].tool = "find_nearby_pins"
        /\ "radius_meters" \in call_ret[1].calls[1].arguments
        /\ call_ret[1].calls[2].tool = "create_pin"
        /\ (call_args[1].nearby = None =>
               call_ret[1].result.nearby_count = Some(0))

----------------------------------------------------------------------------
\* _find_nearby_pins on its own

\* most pins a proximity search returns
MaxNearby == 6

\* the data of a find_nearby_pins answer: the statuses of the pins found
NearbyLists == UNION {[1..n -> NearbyStatuses] : n \in 0..MaxNearby}

ProximityInputs ==
    [parameters : {EmptyDict, [k \in ParamKeys |-> Some(1)]},
     nearby : {None} \cup {Some(pins) : pins \in NearbyLists}]

ProximityInit == CallInit("_find_nearby_pins", ProximityInputs)

\* _find_nearby_pins(params) returns
find_nearby_pins_returns ==
    /\ pc = "_find_nearby_pins"
    /\ CallReturns("_find_nearby_pins",
           _find_nearby_pins(call_args[1].parameters, call_args[1].nearby))

NextProximity == find_nearby_pins_returns

SpecProximity == ProximityInit /\ [][NextProximity]_vars

----------------------------------------------------------------------------
\* find_nearby_pins

\* the recommendations C26 gives for a result count
ProximityTable(count) ==
    IF count = 0 THEN <<"No nearby pins - isolated issue">>
    ELSE IF count \in 1..5 THEN <<>>
    ELSE <<"High concentration area - may indicate systemic issue",
           "Consider pattern analysis and root cause investigation">>

\* C26: a successful find_nearby_pins reports the number of pins found and
\* the recommendations that number alone determines: the isolated-issue one
\* for 0, none for 1 to 5, the two high-concentration ones above 5
C26_RecommendationsFromCount ==
    (pc = "done" /\ call_ret[1].result.action = "find_nearby_pins"
     /\ call_ret[1].result.success) =>
        /\ call_args[1].nearby # None
        /\ call_ret[1].result.nearby_count = Some(Len(call_args[1].nearby[1]))
        /\ call_ret[1].result.recommendations =
               Some(ProximityTable(Len(call_args[1].nearby[1])))

\* a search that found six pins, open and closed
C26_Witness ==
    /\ pc = "done"
    /\ call_ret[1].result.action = "find_nearby_pins"
    /\ call_ret[1].result.success
    /\ call_ret[1].result.nearby_count = Some(6)
    /\ Range(call_args[1].nearby[1]) = NearbyStatuses
    /\ Len(call_ret[1].result.recommendations[1]) = 2

----------------------------------------------------------------------------
\* Passthrough handlers

\* the name each passthrough handler signs its message with, and its key in
\* results
PassthroughHandlers ==
    [photo_processor |-> [agent |-> "PhotoProcessor", key |-> "photo_processing"],
     spatial_analyst |-> [agent |-> "SpatialAnalyst", key |-> "spatial_analysis"],
     reporter |-> [agent |-> "Reporter", key |-> "reporting"]]

C27_Step ==
    (pc \in DOMAIN PassthroughHandlers /\ steps' = steps + 1) =>
        LET handler == PassthroughHandlers[pc]
        IN  /\ pc' # "raised"
            /\ calls' = <<>>
            /\ messages' = Append(messages, handler.agent)
            /\ DOMAIN results' = DOMAIN results \cup {handler.key}
            /\ results'[handler.key] = [status |-> "completed"]
            /\ \A key \in DOMAIN results \ {handler.key} :
                   results'[key] = results[key]
            /\ next_agent' = "end"
            /\ UNCHANGED <<current_task, project_id, roof_id, context,
                           error_state>>

\* C27: a step of photo_processor, spatial_analyst or reporter never raises;
\* it appends one message of its own, puts {status: completed} under its own
\* key of results, sets next_agent = end, and leaves current_task,
\* project_id, roof_id, context, error_state and the other entries of results
\* as they were
C27_PassthroughFrame == [][C27_Step]_vars

\* the reporter has run after a pin operation left its result
C27_Witness ==
    /\ DOMAIN results = {"pin_ops", "reporting"}
    /\ messages[Len(messages)] = "Reporter"
    /\ project_id # None

----------------------------------------------------------------------------
\* PinOpsAgent.process on its own, with the Classifier's reply as input

\* most pieces in a Classifier reply
MaxTokens == 4

ResponseTexts == UNION {[1..n -> ResponseTokens] : n \in 0..MaxTokens}

PinOpsInputs == [response : ResponseTexts, tool_ok : BOOLEAN]

\* the state process is given: that of a run whose only message is the task
PinOpsInit ==
    /\ pc = "PinOpsAgent.process"
    /\ messages = <<"human">>
    /\ next_agent = "pin_ops"
    /\ error_state = None
    /\ results = EmptyDict
    /\ current_task = "task"
    /\ \E ids \in ProcessTaskArgs : project_id = ids[1] /\ roof_id = ids[2]
    /\ context = EmptyDict
    /\ steps = 1
    /\ calls = <<>>
    /\ final_state = None
    /\ ret = None
    /\ arg_task = <<>>
    /\ ret_task_analysis = None
    /\ arg_criteria_checks = None
    /\ ret_decision = None
    /\ arg_review_results = <<>>
    /\ ret_review = None
    /\ call_args \in {Some(input) : input \in PinOpsInputs}
    /\ call_ret = None
    /\ NewClient

\* process(state) returns or raises; the extracted analysis is kept with
\* the outcome
pin_ops_process_returns ==
    /\ pc = "PinOpsAgent.process"
    /\ CallReturns("PinOpsAgent.process",
           [operation_analysis |->
                _extract_json_from_text(call_args[1].response),
            outcome |->
                PinOpsAgent_process_outcome(
                    _analyze_pin_operation(call_args[1].response),
                    None, call_args[1].tool_ok)])

NextPinOps == pin_ops_process_returns

SpecPinOps == PinOpsInit /\ [][NextPinOps]_vars

----------------------------------------------------------------------------
\* Classifier output extraction

PinOpsDone == pc = "done" /\ call_args[1].response \in ResponseTexts

\* the text is JSON as it stands
IsBareJson(text) == json_loads(text) # None

\* the JSON blocks of the text: what stands between an opening fence and the
\* next three backquotes, when it is JSON
FencedJsonBlocks(text) ==
    {json_loads(SubSeq(text, i + 1, j - 1)) :
        <<i, j>> \in {p \in (1..Len(text)) \X (1..Len(text)) :
                        /\ p[1] < p[2]
                        /\ text[p[1]] = FENCE_JSON
                        /\ text[p[2]] \in {FENCE, FENCE_JSON}
                        /\ \A k \in (p[1] + 1)..(p[2] - 1) :
                               text[k] \notin {FENCE, FENCE_JSON}}}
    \ {None}

Unparsable(text) == ~IsBareJson(text) /\ FencedJsonBlocks(text) = {}

\* C28: when the Classifier's reply to the operation-analysis prompt is
\* unparsable, process raises nothing, makes no gateway call, sets
\* error_state and next_agent = end, and leaves results without a pin_ops
\* entry
C28_UnparsableAnalysisEndsStep ==
    (PinOpsDone /\ Unparsable(call_args[1].response)) =>
        LET outcome == call_ret[1].outcome
        IN  /\ ~outcome.raised
            /\ outcome.calls = <<>>
            /\ outcome.update.error_state # None
            /\ outcome.update.next_agent = "end"
            /\ "pin_ops" \notin DOMAIN outcome.update.results
            /\ outcome.update.results = results

\* the Classifier call failed, and a reply whose fenced block does not close
C28_Witness ==
    /\ PinOpsDone
    /\ call_args[1].response \in
           {<<LLM_ERROR>>, <<PROSE, FENCE_JSON, OPERATION>>}
    /\ call_ret[1].outcome.update.error_state = Some(NO_PIN_ANALYSIS)

\* what process returns when the extraction gave no result
NoResultOutcome ==
    PinOpsAgent_process_outcome(_analyze_pin_operation(<<LLM_ERROR>>), None,
                                call_args[1].tool_ok)

\* C29 as claimed: the extraction yields the parsed JSON when the reply is
\* bare JSON or holds a fenced JSON block, and no result when it is
\* unparsable; and the handler does not treat a parsed {} as it treats no
\* result
C29_NoResultDistinctFromEmpty ==
    PinOpsDone =>
        LET text == call_args[1].response
            extracted == call_ret[1].operation_analysis
        IN  /\ ~Unparsable(text) =>
                   /\ extracted # None
                   /\ extracted \in {json_loads(text)} \cup FencedJsonBlocks(text)
            /\ Unparsable(text) => extracted = None
            /\ extracted = Some(EMPTY_OBJECT) =>
                   call_ret[1].outcome # NoResultOutcome

----------------------------------------------------------------------------
\* Message log

\* seq is the beginning of longer
IsPrefix(seq, longer) ==
    Len(seq) <= Len(longer) /\ SubSeq(longer, 1, Len(seq)) = seq

C30_Step ==
    (pc \in GraphNodes /\ steps' = steps + 1 /\ pc' # "raised") =>
        /\ IsPrefix(messages, messages')
        /\ Len(messages') <= Len(messages) + 1

\* C30 as claimed: every step of the Supervisor, a handler or Error-Recovery
\* that returns keeps the message log as the beginning of the new log and
\* adds at most one entry
C30_OneMessagePerStep == [][C30_Step]_vars

----------------------------------------------------------------------------
\* error_state over a run

C32_Step ==
    /\ error_state # None => error_state' # None
    /\ (ret = None /\ ret' # None /\ error_state # None) => ~ret'[1].success

\* C32: no step of the Supervisor, a handler or Error-Recovery takes a set
\* error_state back to None, and process_task returns success = false from
\* every run in which error_state is set
C32_ErrorStateMonotonic == [][C32_Step]_vars

\* the reporter completed after error_state was set, and the run returned
\* success = false
C32_Witness ==
    /\ ret # None
    /\ ~ret[1].success
    /\ "reporting" \in DOMAIN results
    /\ error_state # None

\* Error-Recovery has run before in this task
RecoveredBefore == "error_handler" \in Range(messages)

C33_Step ==
    /\ (pc = "error_handler" /\ steps' = steps + 1 /\ pc' = "supervisor") =>
           /\ ~RecoveredBefore
           /\ error_state' = Some(RECOVERABLE)
    /\ (pc \in Handlers /\ RecoveredBefore /\ steps' = steps + 1
        /\ pc' # "raised") =>
           pc' = "error_handler"
    /\ (pc = "error_handler" /\ RecoveredBefore /\ steps' = steps + 1) =>
           /\ error_state' = Some(FATAL)
           /\ pc' = "END"

\* C33: Error-Recovery hands the run back to the Supervisor only on its
\* first pass; a handler that completes after that pass is followed by
\* Error-Recovery again, and that second pass classifies fatal and ends the
\* run, so Error-Recovery runs at most twice in a task
C33_RecoveryAtMostTwice == [][C33_Step]_vars

\* a second pass of Error-Recovery, after a handler ran in between
C33_Witness ==
    /\ pc = "END"
    /\ error_state = Some(FATAL)
    /\ Len(SelectSeq(messages, LAMBDA author : author = "error_handler")) >= 2
    /\ DOMAIN results # {}

C34_Step ==
    (pc = "error_handler" /\ steps' = steps + 1) =>
        /\ pc' # "supervisor"
        /\ error_state' # Some(RECOVERABLE)
        /\ error_state = None
           \/ error_state[1] \in {NO_TASK_MESSAGE, NO_PIN_ANALYSIS,
                                  NO_QA_ANALYSIS}

\* C34: in a run started by process_task the error_state Error-Recovery
\* reads is None or one of the handlers' three fixed texts, it is never
\* classified recoverable, and the edge from Error-Recovery to the
\* Supervisor is never taken
C34_NeverRecoverable == [][C34_Step]_vars

\* Error-Recovery ran on a handler's text and ended the run
C34_Witness ==
    /\ pc = "END"
    /\ error_state = Some(FATAL)
    /\ Last(messages) = "error_handler"

----------------------------------------------------------------------------
\* Where ESCALATE comes from

\* the QA handler completed a review in this step
QAReviewCompletes ==
    /\ pc = "qa_reviewer"
    /\ steps' = steps + 1
    /\ pc' # "raised"
    /\ messages' = Append(messages, "QAReviewer")

\* C35: no single-pin review returns ESCALATE, so no pin_review or
\* batch_review aggregate is ESCALATE and the escalated count of every summary
\* is 0; and the QA handler sets next_agent to "supervisor" only with the
\* result of a quality audit that fetched the analytics and whose
\* overall_score compared below 0.8
C35_Step ==
    /\ QAReviewCompletes =>
           LET review == results'["qa_review"]
           IN  /\ \A i \in 1..Len(review.individual_results) :
                      review.individual_results[i].decision # "ESCALATE"
               /\ review.summary # None =>
                      /\ review.decision # "ESCALATE"
                      /\ review.summary[1].escalated = 0
               /\ review.decision = "ESCALATE" =>
                      review.quality_indicators # None
    /\ (pc = "qa_reviewer" /\ steps' = steps + 1 /\ next_agent' = "supervisor") =>
           /\ QAReviewCompletes
           /\ results'["qa_review"].decision = "ESCALATE"
           /\ results'["qa_review"].quality_indicators # None
           /\ ~ScoreAtLeast80(results'["qa_review"].quality_indicators[1].scores)
           /\ Last(calls').tool = "get_pin_analytics"
           /\ Last(calls').success

C35_EscalateOnlyFromAudit == [][C35_Step]_vars

\* a low-scoring quality audit has sent the run back to the Supervisor, and
\* an earlier or later pin review has produced a summary
C35_Witness ==
    /\ pc = "supervisor"
    /\ next_agent = "supervisor"
    /\ Last(messages) = "QAReviewer"
    /\ results["qa_review"].decision = "ESCALATE"
    /\ LessFrac(results["qa_review"].quality_indicators[1].overall_score,
                <<8, 10>>)

----------------------------------------------------------------------------
(* _execute_review called on its own *)

\* the review analyses that reach _execute_review, with the gateway's answers
ReviewInputs == {input \in QAInputs : input.kind = "dict"}

ReviewInit == CallInit("_execute_review", ReviewInputs)

\* _execute_review(analysis, state) returns the result dict of the operation,
\* or raises, having made its gateway calls
execute_review_returns ==
    /\ pc = "_execute_review"
    /\ LET input == call_args[1]
           done == _execute_review(input, input.gateway_ok, input.lookups,
                                   input.analytics)
       IN  CallReturns("_execute_review",
               [raised |-> done.raised, result |-> done.result,
                calls |-> done.calls])

NextReview == execute_review_returns

SpecReview == ReviewInit /\ [][NextReview]_vars

----------------------------------------------------------------------------
\* Review of no pin

\* a pin review was asked for and reached _review_pins with no pin id:
\* pin_review without ids, or batch_review whose search succeeded and
\* returned no pin
ReviewedNoPin ==
    /\ pc = "done"
    /\ call_args[1].lookups = <<>>
    /\ \/ call_args[1].operation = "pin_review"
       \/ call_args[1].operation = "batch_review" /\ call_args[1].gateway_ok

\* the gateway calls that look up one pin
PerPinCalls(made_calls) ==
    SelectSeq(made_calls, LAMBDA call : call.arguments = {"pin_ids"})

\* C36: a pin review over an empty list of pin ids returns
\* REQUEST_MORE_INFO without summary, never APPROVE, and looks up no pin; a
\* review over n >= 1 ids looks up n pins unless a lookup raises
C36_EmptyReviewAsksForIds ==
    /\ ReviewedNoPin =>
           /\ ~call_ret[1].raised
           /\ call_ret[1].result.decision = "REQUEST_MORE_INFO"
           /\ call_ret[1].result.summary = None
           /\ call_ret[1].result.individual_results = <<>>
           /\ PerPinCalls(call_ret[1].calls) = <<>>
    /\ (/\ pc = "done"
        /\ call_args[1].operation \in {"pin_review", "batch_review"}
        /\ call_args[1].gateway_ok
        /\ ~call_ret[1].raised) =>
           Len(PerPinCalls(call_ret[1].calls)) = Len(call_args[1].lookups)

\* a batch review whose search found nothing
C36_Witness ==
    /\ ReviewedNoPin
    /\ call_args[1].operation = "batch_review"
    /\ Len(call_ret[1].calls) = 1
    /\ call_ret[1].result.decision = "REQUEST_MORE_INFO"

----------------------------------------------------------------------------
\* Summary of a pin review

\* C37: in a pin-review result that has a summary, the decision is APPROVE
\* exactly when approved = total_reviewed >= 1, which is when approval_rate
\* is 1; approved + rejected + escalated is at most total_reviewed and falls
\* short of it by the number of REQUEST_MORE_INFO results
C37_SummaryConsistent ==
    (ret_review # None /\ ret_review[1].summary # None) =>
        LET summary == ret_review[1].summary[1]
            counted == summary.approved + summary.rejected + summary.escalated
        IN  /\ summary.total_reviewed = Len(arg_review_results)
            /\ summary.total_reviewed >= 1
            /\ ret_review[1].decision = "APPROVE"
                   <=> summary.approved = summary.total_reviewed
            /\ ret_review[1].decision = "APPROVE"
                   <=> SameFrac(summary.approval_rate, <<1, 1>>)
            /\ counted <= summary.total_reviewed
            /\ summary.total_reviewed - counted
                   = CountDecision(arg_review_results, "REQUEST_MORE_INFO")

\* an aggregate REJECT none of whose results is a REJECT
C37_Witness ==
    /\ ret_review # None
    /\ ret_review[1].summary # None
    /\ ret_review[1].decision = "REJECT"
    /\ ret_review[1].summary[1].rejected = 0
    /\ ret_review[1].summary[1].approved = 1
    /\ ret_review[1].summary[1].total_reviewed = 2

----------------------------------------------------------------------------
\* What create_pin validates and what it sends

\* C38 as claimed: when create_pin's validation passes, roof_id, x and y are
\* in the operation parameters with the values that were validated, and both
\* gateway calls are made with them; a roof_id the workflow state alone
\* supplies does not pass validation
C38_ValidatedFieldsSent ==
    (CreatePinDone /\ ValidationPassed) =>
        /\ \A field \in RequiredFields : InParameters(field)
        /\ ~call_ret[1].raised
        /\ Len(call_ret[1].calls) = 2
        /\ \A i \in 1..2 : RequiredFields \subseteq call_ret[1].calls[i].arguments

----------------------------------------------------------------------------
(* Concurrent tasks on the shared MCPClient *)

\* the orchestrator has been constructed and no task has called its client
ClientInit == NoWorkflowRun("process_task_endpoint") /\ NoFunctionCall

NextClient ==
    \/ \E t \in Tasks : call_tool(t)
    \/ \E t \in Tasks : connect(t)
    \/ \E p \in ServerNumbers : server_answers(p)
    \/ \E t \in Tasks : readline(t)

SpecClient == ClientInit /\ [][NextClient]_vars

\* C39 as claimed: the shared client starts at most one server process, and
\* a process handle it holds is never overwritten by another caller's
C39_OneServerProcess ==
    /\ Len(servers) <= 1
    /\ process # None => process = Some(1)

\* C31 as claimed: concurrent tasks do not interfere: every call a task made
\* returned the answer to that task's own request, or failed because no
\* server process could be started, and a task waiting for its answer reads
\* the process the client holds
C31_TasksIsolated ==
    \A t \in Tasks :
        /\ \A i \in 1..Len(callers[t].returned) :
               callers[t].returned[i] \in {<<t, i>>, NOT_CONNECTED}
        /\ callers[t].at = "readline" => process = Some(callers[t].reads)

=============================================================================
